---- MODULE Spec2Model ----
(***************************************************************************)
(* Verification model of the OCR image preprocessing code                  *)
(* (ImagePreprocessor in src/src/components/ErrorBoundary.tsx).            *)
(*                                                                         *)
(* The specifications share the variables:                                 *)
(*   SpecPipe   - one ImagePreprocessor.preprocess call, stage by stage    *)
(*   SpecBatch  - processItem -> performOCR -> preprocess for one file     *)
(*   SpecOtsu   - calculateOtsuThreshold applied to bounded images         *)
(*   SpecAdapt  - adaptiveThreshold applied to bounded images              *)
(*   SpecBinarize- threshold / adaptiveThreshold on RGBA buffers           *)
(*   SpecGray    - toGrayscale applied to bounded buffers                  *)
(*   SpecSkew    - detectSkewAngle and deskew on bounded images            *)
(*   SpecMorph   - dilate / erode / closing / opening                      *)
(*   SpecWindow  - pixel accesses of the windowed stages                   *)
(*   SpecQueue   - useBatchQueue: the queue and its processing runs        *)
(*   SpecEditor  - useTextEditor: the undo / redo history                  *)
(*                                                                         *)
(* Numbers with one decimal in the source (contrastFactor 1.3, unsharp     *)
(* amount 1.5) are kept in tenths (13, 15).                                *)
(***************************************************************************)
EXTENDS Integers, Sequences, FiniteSets, TLC

VARIABLES
    options,    \* preprocess: the caller's options argument (partial record)
    opts,       \* preprocess: const opts = { ...defaults, ...options }
    pc,         \* preprocess: position in the handler
    calls,      \* preprocess: the ImagePreprocessor methods called so far
    imageData,  \* preprocess: let imageData (the transforms its pixels went through)
    dataURL,    \* preprocess: what ctx.putImageData / canvas.toDataURL encoded
    promise,    \* preprocess: state of the returned Promise
    input,      \* pure functions: <<the arguments>>
    output,     \* pure functions: <<the returned value>>, <<>> before the return
    ocr,        \* performOCR: state of the Promise it returned
    status,     \* processItem: the status of the QueueItem
    queueItemId,   \* useBatchQueue: let queueItemId
    items,         \* useBatchQueue: const [items, setItems]
    isProcessing,  \* useBatchQueue: const [isProcessing, setIsProcessing]
    isPaused,      \* useBatchQueue: const [isPaused, setIsPaused]
    pauseRef,      \* useBatchQueue: pauseRef.current
    abortRef,      \* useBatchQueue: abortRef.current
    runs,          \* useBatchQueue: the calls of startProcessing
    documents,     \* the document records (createDocument / updateDocument)
    history,       \* useTextEditor: const [history, setHistory]
    debounceTimer, \* useTextEditor: debounceTimer.current (TRUE: a timer is set)
    pendingText    \* useTextEditor: pendingText.current

queueVars  == <<queueItemId, items, isProcessing, isPaused, pauseRef, abortRef, runs,
               documents>>
editorVars == <<history, debounceTimer, pendingText>>
hookVars   == <<queueVars, editorVars>>
callerVars == <<ocr, status, hookVars>>
pipeVars == <<options, opts, pc, calls, imageData, dataURL, promise, callerVars>>
fnVars   == <<input, output, callerVars>>
vars     == <<options, opts, pc, calls, imageData, dataURL, promise, input, output,
             ocr, status, queueItemId, items, isProcessing, isPaused, pauseRef,
             abortRef, runs, documents, history, debounceTimer, pendingText>>

None == "none"

(***************************************************************************)
(* PreprocessingOptions                                                    *)
(***************************************************************************)
Toggles ==
    {"grayscale", "denoise", "contrast", "threshold", "adaptiveThreshold",
     "sharpen", "deskew", "morphology", "upscale", "bilateralFilter",
     "unsharpMask"}

Numerics == {"contrastFactor", "adaptiveBlockSize", "adaptiveC"}

Fields == Toggles \cup Numerics \cup {"mode"}

\* The values a caller may give a field.
FieldValues(f) ==
    IF f \in Toggles THEN BOOLEAN
    ELSE IF f = "mode" THEN {"printed", "handwritten"}
    ELSE IF f = "contrastFactor" THEN {20}
    ELSE IF f = "adaptiveBlockSize" THEN {7}
    ELSE {3}

\* The most fields one caller record supplies.
MaxSupplied == 4

\* if (o.f): an absent property is undefined, which is falsy.
Truthy(o, f) == f \in DOMAIN o /\ o[f] = TRUE

\* o.mode === 'handwritten'
Handwritten(o) == "mode" \in DOMAIN o /\ o["mode"] = "handwritten"

\* o.f ?? b
Coalesce(o, f, b) == IF f \in DOMAIN o THEN o[f] ELSE b

getDefaultPrintedOptions ==
    [grayscale |-> TRUE, denoise |-> TRUE, contrast |-> TRUE,
     threshold |-> FALSE, adaptiveThreshold |-> FALSE, sharpen |-> TRUE,
     deskew |-> FALSE, morphology |-> FALSE, mode |-> "printed",
     contrastFactor |-> 13, upscale |-> FALSE, bilateralFilter |-> FALSE,
     unsharpMask |-> FALSE]

getDefaultHandwrittenOptions ==
    [grayscale |-> TRUE, denoise |-> TRUE, contrast |-> TRUE,
     threshold |-> FALSE, adaptiveThreshold |-> TRUE, sharpen |-> FALSE,
     deskew |-> TRUE, morphology |-> TRUE, mode |-> "handwritten",
     contrastFactor |-> 18, adaptiveBlockSize |-> 31, adaptiveC |-> 12,
     upscale |-> TRUE, bilateralFilter |-> TRUE, unsharpMask |-> TRUE]

\* options.mode === 'handwritten' ? handwritten defaults : printed defaults
SelectDefaults(o) ==
    IF Handwritten(o)
    THEN getDefaultHandwrittenOptions
    ELSE getDefaultPrintedOptions

\* Mutant of Spread: { ...o, ...d }, the defaults win.
Spread_DefaultsWin(d, o) ==
    [f \in (DOMAIN d) \cup (DOMAIN o) |-> IF f \in DOMAIN d THEN d[f] ELSE o[f]]

\* { ...d, ...o }: the properties of o win.
Spread(d, o) ==
    [f \in (DOMAIN d) \cup (DOMAIN o) |-> IF f \in DOMAIN o THEN o[f] ELSE d[f]]

(***************************************************************************)
(* preprocess, stage by stage                                              *)
(***************************************************************************)
\* The angle detectSkewAngle may report, in half degrees.
SkewAngles == {0, 4}

Call(c) ==
    /\ calls' = Append(calls, c)
    /\ imageData' = Append(imageData, c)

Skip == UNCHANGED <<calls, imageData>>

\* The caller adds one property to the options record it will pass.
SupplyOption ==
    /\ pc = "idle"
    /\ Cardinality(DOMAIN options) < MaxSupplied
    /\ \E f \in Fields \ DOMAIN options :
         \E v \in FieldValues(f) :
            options' = [g \in DOMAIN options \cup {f} |->
                           IF g = f THEN v ELSE options[g]]
    /\ UNCHANGED <<opts, pc, calls, imageData, dataURL, promise, fnVars>>

\* preprocess(file, options): select defaults, merge, create the promise and
\* start loading the image.
Preprocess ==
    /\ pc = "idle"
    /\ opts' = Spread(SelectDefaults(options), options)
    /\ promise' = "pending"
    /\ pc' = "loading"
    /\ UNCHANGED <<options, calls, imageData, dataURL, fnVars>>

\* img.onerror
ImgOnError ==
    /\ pc = "loading"
    /\ promise' = "rejected"
    /\ pc' = "done"
    /\ UNCHANGED <<options, opts, calls, imageData, dataURL, fnVars>>

\* img.onload, to the first getImageData; no 2d context rejects.
ImgOnLoad ==
    /\ pc = "loading"
    /\ \E ctx \in {"2d", "null"} :
         IF ctx = "null"
         THEN /\ promise' = "rejected"
              /\ pc' = "done"
         ELSE /\ promise' = promise
              /\ pc' = "step0"
    /\ UNCHANGED <<options, opts, calls, imageData, dataURL, fnVars>>

\* Mutant of StepUpscale: the mode is not consulted.
StepUpscale_AnyMode ==
    /\ pc = "step0"
    /\ IF Truthy(opts, "upscale")
       THEN Call(<<"upscale", 2>>)
       ELSE Skip
    /\ pc' = "step1"
    /\ UNCHANGED <<options, opts, dataURL, promise, fnVars>>

StepUpscale ==
    /\ pc = "step0"
    /\ IF Truthy(opts, "upscale") /\ Handwritten(opts)
       THEN Call(<<"upscale", 2>>)
       ELSE Skip
    /\ pc' = "step1"
    /\ UNCHANGED <<options, opts, dataURL, promise, fnVars>>

StepGrayscale ==
    /\ pc = "step1"
    /\ IF Truthy(opts, "grayscale")
       THEN Call(<<"toGrayscale">>)
       ELSE Skip
    /\ pc' = "step2"
    /\ UNCHANGED <<options, opts, dataURL, promise, fnVars>>

\* deskew returns its argument when the detected angle is below 0.5 degrees.
StepDeskew ==
    /\ pc = "step2"
    /\ IF Truthy(opts, "deskew")
       THEN \E angle \in SkewAngles :
              /\ calls' = Append(calls, <<"deskew">>)
              /\ imageData' = IF angle < 1 /\ angle > -1
                              THEN imageData
                              ELSE Append(imageData, <<"deskew", angle>>)
       ELSE Skip
    /\ pc' = "step3"
    /\ UNCHANGED <<options, opts, dataURL, promise, fnVars>>

\* Mutant of StepNoise: plain denoise is tried before the bilateral filter.
StepNoise_DenoiseFirst ==
    /\ pc = "step3"
    /\ IF Truthy(opts, "denoise")
       THEN IF Handwritten(opts)
            THEN Call(<<"medianFilter", 2>>)
            ELSE Call(<<"denoise">>)
       ELSE IF Truthy(opts, "bilateralFilter")
       THEN Call(<<"bilateralFilter",
                   IF Handwritten(opts) THEN 3 ELSE 2, 40, 40>>)
       ELSE Skip
    /\ pc' = "step4"
    /\ UNCHANGED <<options, opts, dataURL, promise, fnVars>>

StepNoise ==
    /\ pc = "step3"
    /\ IF Truthy(opts, "bilateralFilter")
       THEN Call(<<"bilateralFilter",
                   IF Handwritten(opts) THEN 3 ELSE 2, 40, 40>>)
       ELSE IF Truthy(opts, "denoise")
       THEN IF Handwritten(opts)
            THEN Call(<<"medianFilter", 2>>)
            ELSE Call(<<"denoise">>)
       ELSE Skip
    /\ pc' = "step4"
    /\ UNCHANGED <<options, opts, dataURL, promise, fnVars>>

StepContrast ==
    /\ pc = "step4"
    /\ IF Truthy(opts, "contrast")
       THEN Call(<<"increaseContrast", Coalesce(opts, "contrastFactor", 13)>>)
       ELSE Skip
    /\ pc' = "step5"
    /\ UNCHANGED <<options, opts, dataURL, promise, fnVars>>

\* Mutant of StepMorphology: closing is applied before opening.
StepMorphology_ClosingFirst ==
    /\ pc = "step5"
    /\ IF Truthy(opts, "morphology") /\ Handwritten(opts)
       THEN /\ calls' = calls \o << <<"closing", 3>>, <<"opening", 2>> >>
            /\ imageData' = imageData \o << <<"closing", 3>>, <<"opening", 2>> >>
       ELSE Skip
    /\ pc' = "step6"
    /\ UNCHANGED <<options, opts, dataURL, promise, fnVars>>

StepMorphology ==
    /\ pc = "step5"
    /\ IF Truthy(opts, "morphology") /\ Handwritten(opts)
       THEN /\ calls' = calls \o << <<"opening", 2>>, <<"closing", 3>> >>
            /\ imageData' = imageData \o << <<"opening", 2>>, <<"closing", 3>> >>
       ELSE Skip
    /\ pc' = "step6"
    /\ UNCHANGED <<options, opts, dataURL, promise, fnVars>>

\* Mutant of StepEdge: sharpen is not held back in handwritten mode.
StepEdge_SharpenAnyMode ==
    /\ pc = "step6"
    /\ IF Truthy(opts, "unsharpMask")
       THEN Call(<<"unsharpMask",
                   IF Handwritten(opts) THEN 20 ELSE 15, 1>>)
       ELSE IF Truthy(opts, "sharpen")
       THEN Call(<<"sharpen">>)
       ELSE Skip
    /\ pc' = "step7"
    /\ UNCHANGED <<options, opts, dataURL, promise, fnVars>>

StepEdge ==
    /\ pc = "step6"
    /\ IF Truthy(opts, "unsharpMask")
       THEN Call(<<"unsharpMask",
                   IF Handwritten(opts) THEN 20 ELSE 15, 1>>)
       ELSE IF Truthy(opts, "sharpen") /\ ~Handwritten(opts)
       THEN Call(<<"sharpen">>)
       ELSE Skip
    /\ pc' = "step7"
    /\ UNCHANGED <<options, opts, dataURL, promise, fnVars>>

\* Mutant of StepThreshold: the two binarizers are independent ifs.
StepThreshold_Both ==
    /\ pc = "step7"
    /\ LET a == IF Truthy(opts, "adaptiveThreshold")
                THEN << <<"adaptiveThreshold",
                          Coalesce(opts, "adaptiveBlockSize", 15),
                          Coalesce(opts, "adaptiveC", 5)>> >>
                ELSE <<>>
           t == IF Truthy(opts, "threshold") THEN << <<"threshold">> >> ELSE <<>>
       IN /\ calls' = calls \o a \o t
          /\ imageData' = imageData \o a \o t
    /\ pc' = "encode"
    /\ UNCHANGED <<options, opts, dataURL, promise, fnVars>>

StepThreshold ==
    /\ pc = "step7"
    /\ IF Truthy(opts, "adaptiveThreshold")
       THEN Call(<<"adaptiveThreshold",
                   Coalesce(opts, "adaptiveBlockSize", 15),
                   Coalesce(opts, "adaptiveC", 5)>>)
       ELSE IF Truthy(opts, "threshold")
       THEN Call(<<"threshold">>)
       ELSE Skip
    /\ pc' = "encode"
    /\ UNCHANGED <<options, opts, dataURL, promise, fnVars>>

\* ctx.putImageData(imageData, 0, 0); resolve(canvas.toDataURL('image/png'))
Encode ==
    /\ pc = "encode"
    /\ dataURL' = imageData
    /\ promise' = "resolved"
    /\ pc' = "done"
    /\ UNCHANGED <<options, opts, calls, imageData, fnVars>>

\* useBatchQueue before any file is added
QueueInit ==
    /\ queueItemId = 0
    /\ items = <<>>
    /\ isProcessing = FALSE
    /\ isPaused = FALSE
    /\ pauseRef = FALSE
    /\ abortRef = FALSE
    /\ runs = <<>>
    /\ documents = <<>>

\* The text the editor is opened with.
InitialText == "a"

\* useTextEditor({ initialText })
EditorInit ==
    /\ history = [past |-> <<>>, present |-> InitialText, future |-> <<>>]
    /\ debounceTimer = FALSE
    /\ pendingText = None

PipeInit ==
    /\ options = <<>>
    /\ opts = None
    /\ pc = "idle"
    /\ calls = <<>>
    /\ imageData = <<>>
    /\ dataURL = None
    /\ promise = None
    /\ ocr = None
    /\ status = None
    /\ QueueInit
    /\ EditorInit

FnIdle == input = <<>> /\ output = <<>>

InitPipe == PipeInit /\ FnIdle

NextPipe ==
    \/ SupplyOption
    \/ Preprocess
    \/ ImgOnError
    \/ ImgOnLoad
    \/ StepUpscale
    \/ StepGrayscale
    \/ StepDeskew
    \/ StepNoise
    \/ StepContrast
    \/ StepMorphology
    \/ StepEdge
    \/ StepThreshold
    \/ Encode

SpecPipe == InitPipe /\ [][NextPipe]_vars

(***************************************************************************)
(* One batch item: processItem (useBatchQueue) awaits performOCR, which    *)
(* awaits ImagePreprocessor.preprocess.  The stages run inside img.onload, *)
(* an event handler: nothing in it catches, so an exception thrown by a    *)
(* stage leaves the handler without resolve or reject having been called.  *)
(***************************************************************************)
\* The caller chooses preprocessingOptions before the file is queued.
ChooseOption == status = None /\ SupplyOption

\* addFiles: the item is queued with status 'pending'.
AddFiles ==
    /\ status = None
    /\ status' = "pending"
    /\ UNCHANGED <<options, opts, pc, calls, imageData, dataURL, promise,
                   input, output, ocr, hookVars>>

\* processItem, to the first await: updateItem(item.id, { status: 'processing' }).
ProcessItem ==
    /\ status = "pending"
    /\ status' = "processing"
    /\ UNCHANGED <<options, opts, pc, calls, imageData, dataURL, promise,
                   input, output, ocr, hookVars>>

\* processItem: createDocument, then
\* performOCR(item.file, ..., { ...preprocessingOptions, mode: ocrMode });
\* a rejected createDocument lands in the catch of processItem.
PerformOCR ==
    /\ status = "processing"
    /\ ocr = None
    /\ \E created \in BOOLEAN :
         IF created
         THEN /\ \E ocrMode \in FieldValues("mode") :
                   options' = Spread(options, [mode |-> ocrMode])
              /\ ocr' = "pending"
              /\ status' = status
         ELSE /\ status' = "failed"
              /\ UNCHANGED <<options, ocr>>
    /\ UNCHANGED <<opts, pc, calls, imageData, dataURL, promise, input, output, hookVars>>

\* performOCR: imageSource = await ImagePreprocessor.preprocess(file, options)
CallPreprocess == ocr = "pending" /\ Preprocess

\* The step of img.onload at pc calls an ImagePreprocessor method.
StageRuns ==
    \/ pc = "step0" /\ Truthy(opts, "upscale") /\ Handwritten(opts)
    \/ pc = "step1" /\ Truthy(opts, "grayscale")
    \/ pc = "step2" /\ Truthy(opts, "deskew")
    \/ pc = "step3" /\ (Truthy(opts, "bilateralFilter") \/ Truthy(opts, "denoise"))
    \/ pc = "step4" /\ Truthy(opts, "contrast")
    \/ pc = "step5" /\ Truthy(opts, "morphology") /\ Handwritten(opts)
    \/ pc = "step6" /\ (Truthy(opts, "unsharpMask")
                        \/ (Truthy(opts, "sharpen") /\ ~Handwritten(opts)))
    \/ pc = "step7" /\ (Truthy(opts, "adaptiveThreshold") \/ Truthy(opts, "threshold"))

\* The stage called at pc throws: the exception leaves img.onload, which has
\* no try/catch, so neither resolve nor reject is called.
StageThrows ==
    /\ StageRuns
    /\ pc' = "thrown"
    /\ UNCHANGED <<options, opts, calls, imageData, dataURL, promise, fnVars>>

\* performOCR: the awaited preprocess promise rejected; the catch rethrows
\* new Error(`OCR failed: ...`).
PreprocessRejected ==
    /\ ocr = "pending"
    /\ promise = "rejected"
    /\ ocr' = "rejected"
    /\ UNCHANGED <<status, options, opts, pc, calls, imageData, dataURL, promise,
                   input, output, hookVars>>

\* Mutant of Recognize: the recognizer is called however preprocess settled.
Recognize_Regardless ==
    /\ ocr = "pending"
    /\ promise \in {"resolved", "rejected"}
    /\ ocr' = "recognizing"
    /\ UNCHANGED <<status, options, opts, pc, calls, imageData, dataURL, promise,
                   input, output, hookVars>>

\* performOCR: the awaited preprocess promise resolved with the image;
\* await Tesseract.recognize(imageSource, language, ...)
Recognize ==
    /\ ocr = "pending"
    /\ promise = "resolved"
    /\ ocr' = "recognizing"
    /\ UNCHANGED <<status, options, opts, pc, calls, imageData, dataURL, promise,
                   input, output, hookVars>>

\* performOCR: Tesseract.recognize returns a result or rejects (catch rethrows).
RecognizeSettles ==
    /\ ocr = "recognizing"
    /\ \E recognized \in BOOLEAN :
         ocr' = IF recognized THEN "resolved" ELSE "rejected"
    /\ UNCHANGED <<status, options, opts, pc, calls, imageData, dataURL, promise,
                   input, output, hookVars>>

\* processItem: catch (error) { updateItem(item.id, { status: 'failed', ... }) }
ItemFailed ==
    /\ status = "processing"
    /\ ocr = "rejected"
    /\ status' = "failed"
    /\ UNCHANGED <<ocr, options, opts, pc, calls, imageData, dataURL, promise,
                   input, output, hookVars>>

\* processItem: updateDocument, then updateItem(item.id, { status: 'completed' });
\* a rejected updateDocument lands in the catch.
ItemCompleted ==
    /\ status = "processing"
    /\ ocr = "resolved"
    /\ \E updated \in BOOLEAN :
         status' = IF updated THEN "completed" ELSE "failed"
    /\ UNCHANGED <<ocr, options, opts, pc, calls, imageData, dataURL, promise,
                   input, output, hookVars>>

InitBatch == PipeInit /\ FnIdle

NextBatch ==
    \/ ChooseOption
    \/ AddFiles
    \/ ProcessItem
    \/ PerformOCR
    \/ CallPreprocess
    \/ ImgOnError
    \/ ImgOnLoad
    \/ StepUpscale
    \/ StepGrayscale
    \/ StepDeskew
    \/ StepNoise
    \/ StepContrast
    \/ StepMorphology
    \/ StepEdge
    \/ StepThreshold
    \/ Encode
    \/ StageThrows
    \/ PreprocessRejected
    \/ Recognize
    \/ RecognizeSettles
    \/ ItemFailed
    \/ ItemCompleted

SpecBatch == InitBatch /\ [][NextBatch]_vars


(***************************************************************************)
(* JavaScript numbers.  The arithmetic of calculateOtsuThreshold is done   *)
(* on IEEE 754 doubles: every / - * rounds its exact result to 53          *)
(* significant bits, ties to even.  A double is modelled by its exact      *)
(* value, neg * m * 2^e, with the natural number m held as a sequence of   *)
(* limbs (least significant first) because it does not fit a machine       *)
(* integer of the checker.  x / 0 is not a finite number.                  *)
(***************************************************************************)
LimbBits == 12
LimbBase == 2 ^ LimbBits
SignificandBits == 53

RECURSIVE BigNorm(_)
BigNorm(x) ==
    IF x = <<>> THEN <<>>
    ELSE IF x[Len(x)] = 0 THEN BigNorm(SubSeq(x, 1, Len(x) - 1))
    ELSE x

RECURSIVE BigFromInt(_)
BigFromInt(n) ==
    IF n = 0 THEN <<>> ELSE <<n % LimbBase>> \o BigFromInt(n \div LimbBase)

RestOf(x) == IF x = <<>> THEN <<>> ELSE Tail(x)
LowOf(x)  == IF x = <<>> THEN 0 ELSE Head(x)

RECURSIVE BigAddC(_, _, _)
BigAddC(x, y, c) ==
    IF x = <<>> /\ y = <<>>
    THEN BigFromInt(c)
    ELSE LET s == LowOf(x) + LowOf(y) + c
         IN  <<s % LimbBase>> \o BigAddC(RestOf(x), RestOf(y), s \div LimbBase)

BigAdd(x, y) == BigAddC(x, y, 0)

\* x - y for x >= y
RECURSIVE BigSubB(_, _, _)
BigSubB(x, y, b) ==
    IF x = <<>> THEN <<>>
    ELSE LET d == Head(x) - LowOf(y) - b
         IN  IF d < 0
             THEN <<d + LimbBase>> \o BigSubB(Tail(x), RestOf(y), 1)
             ELSE <<d>> \o BigSubB(Tail(x), RestOf(y), 0)

BigSub(x, y) == BigNorm(BigSubB(x, y, 0))

\* -1, 0, 1 as x < y, x = y, x > y (both without leading zero limbs)
RECURSIVE BigCmpAt(_, _, _)
BigCmpAt(x, y, i) ==
    IF i = 0 THEN 0
    ELSE IF x[i] < y[i] THEN -1
    ELSE IF x[i] > y[i] THEN 1
    ELSE BigCmpAt(x, y, i - 1)

BigCmp(x, y) ==
    IF Len(x) < Len(y) THEN -1
    ELSE IF Len(x) > Len(y) THEN 1
    ELSE BigCmpAt(x, y, Len(x))

\* x * m + c for a small m
RECURSIVE BigMulSmall(_, _, _)
BigMulSmall(x, m, c) ==
    IF x = <<>> THEN BigFromInt(c)
    ELSE LET p == Head(x) * m + c
         IN  <<p % LimbBase>> \o BigMulSmall(Tail(x), m, p \div LimbBase)

RECURSIVE BigMul(_, _)
BigMul(x, y) ==
    IF y = <<>> \/ x = <<>> THEN <<>>
    ELSE BigNorm(BigAdd(BigMulSmall(x, Head(y), 0), <<0>> \o BigMul(x, Tail(y))))

\* [q, r] with x = q * m + r, 0 <= r < m, for a small m; limbs 1..i of x
RECURSIVE BigDivLoop(_, _, _, _)
BigDivLoop(x, m, i, rem) ==
    IF i = 0 THEN [q |-> <<>>, r |-> rem]
    ELSE LET cur   == rem * LimbBase + x[i]
             lower == BigDivLoop(x, m, i - 1, cur % m)
         IN  [q |-> Append(lower.q, cur \div m), r |-> lower.r]

BigDivSmall(x, m) ==
    LET d == BigDivLoop(x, m, Len(x), 0) IN [q |-> BigNorm(d.q), r |-> d.r]

RECURSIVE IntBitLen(_)
IntBitLen(n) == IF n = 0 THEN 0 ELSE 1 + IntBitLen(n \div 2)

BigBitLen(x) ==
    IF x = <<>> THEN 0 ELSE LimbBits * (Len(x) - 1) + IntBitLen(x[Len(x)])

BigShiftLeft(x, n) ==
    IF x = <<>> THEN <<>>
    ELSE [i \in 1..(n \div LimbBits) |-> 0] \o BigMulSmall(x, 2 ^ (n % LimbBits), 0)

BigShiftRight(x, n) ==
    LET drop == n \div LimbBits
    IN  IF drop >= Len(x) THEN <<>>
        ELSE BigDivSmall(SubSeq(x, drop + 1, Len(x)), 2 ^ (n % LimbBits)).q

Min2(a, b) == IF a < b THEN a ELSE b

NaN == [finite |-> FALSE, neg |-> FALSE, m |-> <<>>, e |-> 0]

\* Round m * 2^e to the nearest double, ties to even.
RoundToDouble(neg, m, e) ==
    LET n == BigBitLen(m)
    IN  IF n <= SignificandBits
        THEN [finite |-> TRUE, neg |-> neg, m |-> m, e |-> IF m = <<>> THEN 0 ELSE e]
        ELSE LET k    == n - SignificandBits
                 q    == BigShiftRight(m, k)
                 r    == BigSub(m, BigShiftLeft(q, k))
                 half == BigShiftLeft(<<1>>, k - 1)
                 c    == BigCmp(r, half)
                 up   == c > 0 \/ (c = 0 /\ q[1] % 2 = 1)
             IN  [finite |-> TRUE, neg |-> neg,
                  m |-> IF up THEN BigAdd(q, <<1>>) ELSE q, e |-> e + k]

\* A JavaScript number holding the integer n.
NumFromInt(n) ==
    [finite |-> TRUE, neg |-> n < 0,
     m |-> BigFromInt(IF n < 0 THEN -n ELSE n), e |-> 0]

\* a / b for two numbers holding the integers a >= 0 and b >= 0
NumDivInt(a, b) ==
    IF b = 0 THEN NaN
    ELSE IF a = 0 THEN NumFromInt(0)
    ELSE LET d == BigDivSmall(BigShiftLeft(BigFromInt(a), 6 * LimbBits), b)
         IN  RoundToDouble(FALSE,
                           BigMulSmall(d.q, 2, IF d.r = 0 THEN 0 ELSE 1),
                           -(6 * LimbBits) - 1)

\* x - y
NumSub(x, y) ==
    IF ~x.finite \/ ~y.finite THEN NaN
    ELSE LET e  == Min2(x.e, y.e)
             a  == BigShiftLeft(x.m, x.e - e)
             b  == BigShiftLeft(y.m, y.e - e)
             yn == ~y.neg
         IN  IF x.neg = yn
             THEN RoundToDouble(x.neg, BigAdd(a, b), e)
             ELSE IF BigCmp(a, b) >= 0
             THEN RoundToDouble(x.neg, BigSub(a, b), e)
             ELSE RoundToDouble(yn, BigSub(b, a), e)

\* x * y
NumMul(x, y) ==
    IF ~x.finite \/ ~y.finite THEN NaN
    ELSE RoundToDouble(x.neg # y.neg, BigMul(x.m, y.m), x.e + y.e)

\* x > y
NumGreater(x, y) ==
    IF ~x.finite \/ ~y.finite THEN FALSE
    ELSE LET e == Min2(x.e, y.e)
             c == BigCmp(BigShiftLeft(x.m, x.e - e), BigShiftLeft(y.m, y.e - e))
         IN  IF x.m = <<>> /\ y.m = <<>> THEN FALSE
             ELSE IF x.neg /\ ~y.neg THEN FALSE
             ELSE IF ~x.neg /\ y.neg THEN TRUE
             ELSE IF x.neg THEN c < 0
             ELSE c > 0

(***************************************************************************)
(* calculateOtsuThreshold.  An image is the sequence of its pixels' R      *)
(* samples (data[i], i = 0, 4, 8, ...), integers 0..255.                   *)
(***************************************************************************)
HistogramBins == 256

\* histogram[Math.floor(data[i])]++
Histogram(data) ==
    [v \in 0..(HistogramBins - 1) |-> Cardinality({i \in DOMAIN data : data[i] = v})]

\* let sum = 0; for (i = lo..hi) sum += i * histogram[i]
RECURSIVE WeightedSum(_, _, _)
WeightedSum(histogram, lo, hi) ==
    IF lo > hi THEN 0
    ELSE IF lo = hi THEN lo * histogram[lo]
    ELSE LET mid == (lo + hi) \div 2
         IN  WeightedSum(histogram, lo, mid) + WeightedSum(histogram, mid + 1, hi)

\* wB * wF * (mB - mF) * (mB - mF) with mB = sumB / wB, mF = (sum - sumB) / wF
BetweenClassVariance(wB, wF, sumB, sum) ==
    LET mB == NumDivInt(sumB, wB)
        mF == NumDivInt(sum - sumB, wF)
        d  == NumSub(mB, mF)
    IN  NumMul(NumMul(NumFromInt(wB * wF), d), d)

\* Mutant of Exceeds: >= for >
Exceeds_OrEqual(variance, maxVariance) == ~NumGreater(maxVariance, variance)

\* if (variance > maxVariance)
Exceeds(variance, maxVariance) == NumGreater(variance, maxVariance)

\* Mutant of ForegroundEmpty: the guard is missing.
ForegroundEmpty_Unchecked(wF) == FALSE

\* if (wF === 0) break
ForegroundEmpty(wF) == wF = 0

\* One pass of the body of the for loop over t; st.broke is set by break.
\* For an empty bin after the first occupied one wB, wF and sumB are those of
\* the previous candidate, so the variance computed is the previous
\* candidate's value again: it is carried in st.variance instead of being
\* recomputed.
OtsuStep(histogram, totalPixels, sum, st, t) ==
    IF st.broke THEN st
    ELSE LET wB == st.wB + histogram[t]
         IN  IF wB = 0
             THEN st
             ELSE LET wF == totalPixels - wB
                  IN  IF ForegroundEmpty(wF)
                      THEN [st EXCEPT !.wB = wB, !.broke = TRUE]
                      ELSE LET sumB     == st.sumB + t * histogram[t]
                               variance == IF histogram[t] = 0 /\ st.candidates > 0
                                           THEN st.variance
                                           ELSE BetweenClassVariance(wB, wF, sumB, sum)
                               better   == Exceeds(variance, st.maxVariance)
                           IN  [wB          |-> wB,
                                sumB        |-> sumB,
                                variance    |-> variance,
                                maxVariance |-> IF better THEN variance
                                                ELSE st.maxVariance,
                                threshold   |-> IF better THEN t ELSE st.threshold,
                                candidates  |-> st.candidates + 1,
                                divByZero   |-> st.divByZero \/ wB = 0 \/ wF = 0,
                                broke       |-> FALSE]

\* for (let t = lo; t <= hi; t++), the range split in two halves
RECURSIVE OtsuLoop(_, _, _, _, _, _)
OtsuLoop(histogram, totalPixels, sum, st, lo, hi) ==
    IF lo = hi THEN OtsuStep(histogram, totalPixels, sum, st, lo)
    ELSE LET mid   == (lo + hi) \div 2
             lower == OtsuLoop(histogram, totalPixels, sum, st, lo, mid)
         IN  IF lower.broke THEN lower
             ELSE OtsuLoop(histogram, totalPixels, sum, lower, mid + 1, hi)

\* The returned threshold, with what the loop did on the way.
calculateOtsuThreshold(data) ==
    LET histogram == Histogram(data)
        st == OtsuLoop(histogram, Len(data),
                       WeightedSum(histogram, 0, HistogramBins - 1),
                       [wB |-> 0, sumB |-> 0,
                        variance |-> NumFromInt(0),
                        maxVariance |-> NumFromInt(0),
                        threshold |-> 0, candidates |-> 0,
                        divByZero |-> FALSE, broke |-> FALSE],
                       0, HistogramBins - 1)
    IN  [threshold  |-> st.threshold,
         candidates |-> st.candidates,
         divByZero  |-> st.divByZero]

(***************************************************************************)
(* calculateOtsuThreshold applied to bounded images (SpecOtsu)             *)
(***************************************************************************)
\* The most pixels of an image with freely chosen luminances.
MaxPixels == 4

\* The most pixels of one cluster of a two-cluster image.
MaxCluster == 3

OtsuLevels == {0, 1, 2, 50, 200, 255}

\* The histogram does not depend on the order of the pixels: the images are
\* enumerated up to that order.
SmallImages ==
    UNION {{d \in [1..n -> OtsuLevels] : \A i, j \in 1..n : i < j => d[i] <= d[j]} :
           n \in 0..MaxPixels}

UniformImages ==
    {[i \in 1..n |-> v] : n \in 1..MaxPixels, v \in 0..(HistogramBins - 1)}

BimodalImages ==
    {[i \in 1..(2 * n) |-> IF i <= n THEN 50 ELSE 200] : n \in 1..MaxCluster}

OtsuInit ==
    /\ input \in {<<d>> : d \in SmallImages \cup UniformImages \cup BimodalImages}
    /\ output = <<>>

ApplyOtsu ==
    /\ output = <<>>
    /\ output' = <<calculateOtsuThreshold(input[1])>>
    /\ UNCHANGED <<input, pipeVars>>

InitOtsu == PipeInit /\ OtsuInit

NextOtsu == ApplyOtsu

SpecOtsu == InitOtsu /\ [][NextOtsu]_vars

(***************************************************************************)
(* adaptiveThreshold.  An image is [width, height, data] with data the     *)
(* row-major sequence of the pixels' R samples; the source's index         *)
(* (y * width + x) * 4 is position y * width + x + 1 of data.              *)
(***************************************************************************)
Max2(a, b) == IF a > b THEN a ELSE b

Abs(n) == IF n < 0 THEN -n ELSE n

\* data[(y * width + x) * 4]
Pixel(img, x, y) == img.data[y * img.width + x + 1]

\* The inner loop of computeIntegralImage over x for row y; integral is a
\* function on 0..(width + 1) * (height + 1) - 1.
RECURSIVE IntegralRow(_, _, _, _, _)
IntegralRow(img, integral, y, x, rowSum) ==
    IF x >= img.width THEN integral
    ELSE LET sum == rowSum + Pixel(img, x, y)
             w   == img.width + 1
         IN  IntegralRow(img,
                 [integral EXCEPT ![(y + 1) * w + (x + 1)] = sum + integral[y * w + (x + 1)]],
                 y, x + 1, sum)

\* The outer loop of computeIntegralImage over y.
RECURSIVE IntegralRows(_, _, _)
IntegralRows(img, integral, y) ==
    IF y >= img.height THEN integral
    ELSE IntegralRows(img, IntegralRow(img, integral, y, 0, 0), y + 1)

computeIntegralImage(img) ==
    IntegralRows(img,
                 [i \in 0..((img.width + 1) * (img.height + 1) - 1) |-> 0], 0)

\* Mutant of getIntegralSum: the corners are taken at x1 + 1 and y1 + 1.
getIntegralSum_CornerOff(integral, x1, y1, x2, y2, width) ==
    LET w == width + 1
    IN  integral[(y2 + 1) * w + (x2 + 1)] - integral[(y1 + 1) * w + (x2 + 1)]
          - integral[(y2 + 1) * w + (x1 + 1)] + integral[(y1 + 1) * w + (x1 + 1)]

getIntegralSum(integral, x1, y1, x2, y2, width) ==
    LET w == width + 1
    IN  integral[(y2 + 1) * w + (x2 + 1)] - integral[y1 * w + (x2 + 1)]
          - integral[(y2 + 1) * w + x1] + integral[y1 * w + x1]

\* The body of the loops of adaptiveThreshold for pixel (x, y): the value
\* written to output.  mean = sum / count - c is computed on doubles.
AdaptiveValue(img, integral, half, c, x, y) ==
    LET x1    == Max2(0, x - half)
        y1    == Max2(0, y - half)
        x2    == Min2(img.width - 1, x + half)
        y2    == Min2(img.height - 1, y + half)
        count == (x2 - x1 + 1) * (y2 - y1 + 1)
        sum   == getIntegralSum(integral, x1, y1, x2, y2, img.width)
        mean  == NumSub(NumDivInt(sum, count), NumFromInt(c))
    IN  IF NumGreater(NumFromInt(Pixel(img, x, y)), mean) THEN 255 ELSE 0

adaptiveThreshold(img, blockSize, c) ==
    LET half     == blockSize \div 2
        integral == computeIntegralImage(img)
    IN  [width  |-> img.width,
         height |-> img.height,
         data   |-> [i \in 1..(img.width * img.height) |->
                       AdaptiveValue(img, integral, half, c,
                                     (i - 1) % img.width, (i - 1) \div img.width)]]

(***************************************************************************)
(* adaptiveThreshold applied to bounded images (SpecAdapt)                 *)
(***************************************************************************)
\* The largest width and height of an image.
MaxSide == 3

\* The most pixels of an image that differ from its background.
MaxDark == 2

\* Luminance of the pixels that are not dark.
BackgroundLevels == {200}
DarkLevels == {0, 190}

\* blockSize: single-pixel, even, odd and image-covering windows (15 is the
\* printed default).
BlockSizes == {1, 2, 3, 15}

\* c: negative, zero and the printed default.
AdaptiveCs == {-3, 0, 5}

AdaptiveParams == BlockSizes \X AdaptiveCs

AdaptImages ==
    UNION {UNION {{[width |-> w, height |-> h,
                    data |-> [i \in 1..(w * h) |-> IF i \in dark THEN v[1] ELSE v[2]]] :
                      dark \in {S \in SUBSET (1..(w * h)) : Cardinality(S) <= MaxDark}} :
                  v \in DarkLevels \X BackgroundLevels} :
           w \in 1..MaxSide, h \in 1..MaxSide}

AdaptInit ==
    /\ input \in {<<img, p[1], p[2]>> : img \in AdaptImages, p \in AdaptiveParams}
    /\ output = <<>>

ApplyAdaptiveThreshold ==
    /\ output = <<>>
    /\ output' = <<adaptiveThreshold(input[1], input[2], input[3])>>
    /\ UNCHANGED <<input, pipeVars>>

InitAdapt == PipeInit /\ AdaptInit

NextAdapt == ApplyAdaptiveThreshold

SpecAdapt == InitAdapt /\ [][NextAdapt]_vars

(***************************************************************************)
(* Pixel buffers with four channels.  A buffer is [width, height, data]    *)
(* with data the row-major sequence of the pixels <<R, G, B, A>>; the      *)
(* source's data[i], data[i + 1], data[i + 2], data[i + 3] with            *)
(* i = 4 * (p - 1) are data[p][1] .. data[p][4].                           *)
(***************************************************************************)
\* The R samples of a buffer: what data[idx] reads in the thresholding code.
RPlane(img) ==
    [width |-> img.width, height |-> img.height,
     data |-> [p \in 1..Len(img.data) |-> img.data[p][1]]]

\* Mutant of WriteGray: only the R sample is written.
WriteGray_ROnly(px, value) == <<value, px[2], px[3], px[4]>>

\* data[i] = value; data[i + 1] = value; data[i + 2] = value
WriteGray(px, value) == <<value, value, value, px[4]>>

\* threshold(imageData, thresholdValue): thresholdValue is <<>> when the
\* argument is undefined and <<v>> otherwise.
\* The threshold is computed once, before the loop over the pixels.
threshold(img, thresholdValue) ==
    CHOOSE result \in
        {[img EXCEPT !.data =
            [p \in 1..Len(img.data) |->
               WriteGray(img.data[p], IF img.data[p][1] > t THEN 255 ELSE 0)]] :
         t \in {IF thresholdValue = <<>>
                THEN calculateOtsuThreshold(RPlane(img).data).threshold
                ELSE thresholdValue[1]}} : TRUE

\* adaptiveThreshold on a four-channel buffer: output is a copy of data in
\* which the value computed from the R samples is written to R, G and B.
adaptiveThresholdRGBA(img, blockSize, c) ==
    LET bin == adaptiveThreshold(RPlane(img), blockSize, c)
    IN  [img EXCEPT !.data =
           [p \in 1..Len(img.data) |-> WriteGray(img.data[p], bin.data[p])]]

(***************************************************************************)
(* threshold and adaptiveThreshold applied to bounded buffers              *)
(* (SpecBinarize)                                                          *)
(***************************************************************************)
\* The largest width and height of a buffer.
MaxBinSide == 2

\* Pixels whose G and B differ from R, opaque and transparent.
PixelSamples == {<<200, 10, 30, 255>>, <<40, 250, 90, 0>>}

\* thresholdValue: undefined (Otsu) or a number.
ThresholdValues == {<<>>, <<0>>, <<40>>, <<128>>, <<255>>}

BinarizeImages ==
    UNION {{[width |-> w, height |-> h, data |-> d] :
              d \in [1..(w * h) -> PixelSamples]} :
           w \in 1..MaxBinSide, h \in 1..MaxBinSide}

BinarizeInit ==
    /\ input \in {<<img>> : img \in BinarizeImages}
    /\ output = <<>>

ApplyThreshold ==
    /\ output = <<>>
    /\ \E v \in ThresholdValues :
         output' = <<"threshold", threshold(input[1], v), v>>
    /\ UNCHANGED <<input, pipeVars>>

ApplyAdaptiveThresholdRGBA ==
    /\ output = <<>>
    /\ \E p \in AdaptiveParams :
         output' = <<"adaptiveThreshold", adaptiveThresholdRGBA(input[1], p[1], p[2]), p>>
    /\ UNCHANGED <<input, pipeVars>>

InitBinarize == PipeInit /\ BinarizeInit

NextBinarize == ApplyThreshold \/ ApplyAdaptiveThresholdRGBA

SpecBinarize == InitBinarize /\ [][NextBinarize]_vars

(***************************************************************************)
(* toGrayscale.  The luminance is computed on doubles and stored in a      *)
(* Uint8ClampedArray, which rounds to the nearest integer, ties to even,   *)
(* and clamps to 0..255.                                                   *)
(***************************************************************************)
\* The doubles nearest to 0.299, 0.587 and 0.114.
LumaR == [finite |-> TRUE, neg |-> FALSE, m |-> <<393, 1540, 229, 557, 19>>, e |-> -54]
LumaG == [finite |-> TRUE, neg |-> FALSE, m |-> <<98, 1409, 1081, 3211, 18>>, e |-> -53]
LumaB == [finite |-> TRUE, neg |-> FALSE, m |-> <<1737, 3047, 2719, 753, 29>>, e |-> -56]

\* x + y
NumAdd(x, y) == NumSub(x, [y EXCEPT !.neg = ~y.neg])

RECURSIVE BigToInt(_)
BigToInt(x) == IF x = <<>> THEN 0 ELSE Head(x) + LimbBase * BigToInt(Tail(x))

\* Mutant of ToUint8Clamp: the fraction is dropped instead of rounded.
ToUint8Clamp_Truncate(x) ==
    IF ~x.finite \/ x.neg \/ x.m = <<>> THEN 0
    ELSE LET q == IF x.e >= 0 THEN BigShiftLeft(x.m, x.e) ELSE BigShiftRight(x.m, -x.e)
         IN  IF BigBitLen(q) > 8 THEN 255 ELSE BigToInt(q)

\* The conversion of a number stored into a Uint8ClampedArray element.
ToUint8Clamp(x) ==
    IF ~x.finite \/ x.neg \/ x.m = <<>> THEN 0
    ELSE IF x.e >= 0
    THEN LET q == BigShiftLeft(x.m, x.e)
         IN  IF BigBitLen(q) > 8 THEN 255 ELSE BigToInt(q)
    ELSE LET k    == -x.e
             q    == BigShiftRight(x.m, k)
             r    == BigSub(x.m, BigShiftLeft(q, k))
             half == BigShiftLeft(<<1>>, k - 1)
             c    == BigCmp(r, half)
             n    == IF BigBitLen(q) > 8 THEN 255 ELSE BigToInt(q)
             up   == c > 0 \/ (c = 0 /\ n % 2 = 1)
         IN  IF n >= 255 THEN 255 ELSE IF up THEN n + 1 ELSE n

\* data[i] * 0.299 + data[i + 1] * 0.587 + data[i + 2] * 0.114
Luminance(px) ==
    NumAdd(NumAdd(NumMul(NumFromInt(px[1]), LumaR), NumMul(NumFromInt(px[2]), LumaG)),
           NumMul(NumFromInt(px[3]), LumaB))

toGrayscale(img) ==
    [img EXCEPT !.data =
       [p \in 1..Len(img.data) |->
          LET avg == ToUint8Clamp(Luminance(img.data[p]))
          IN  <<avg, avg, avg, img.data[p][4]>>]]

(***************************************************************************)
(* toGrayscale applied once and twice to bounded buffers (SpecGray)        *)
(***************************************************************************)
\* The most pixels of a buffer.
MaxGrayPixels == 2

ChannelLevels == {0, 37, 128, 255}
AlphaLevels == {0, 255}

\* Every gray pixel, and the coloured pixels over ChannelLevels.
GrayPixels == {<<v, v, v, a>> : v \in 0..255, a \in AlphaLevels}
ColourPixels == ChannelLevels \X ChannelLevels \X ChannelLevels \X AlphaLevels

\* One-pixel buffers of every such pixel, and longer rows of the samples.
GrayImages ==
    {[width |-> 1, height |-> 1, data |-> <<px>>] : px \in GrayPixels \cup ColourPixels}
      \cup UNION {{[width |-> n, height |-> 1, data |-> d] :
                     d \in [1..n -> PixelSamples]} : n \in 2..MaxGrayPixels}

GrayInit ==
    /\ input \in {<<img>> : img \in GrayImages}
    /\ output = <<>>

\* x = toGrayscale(x)
ApplyGrayscale ==
    /\ output = <<>>
    /\ output' = <<toGrayscale(input[1])>>
    /\ UNCHANGED <<input, pipeVars>>

\* toGrayscale(toGrayscale(x))
ApplyGrayscaleAgain ==
    /\ Len(output) = 1
    /\ output' = output \o <<toGrayscale(output[1])>>
    /\ UNCHANGED <<input, pipeVars>>

InitGray == PipeInit /\ GrayInit

NextGray == ApplyGrayscale \/ ApplyGrayscaleAgain

SpecGray == InitGray /\ [][NextGray]_vars

(***************************************************************************)
(* detectSkewAngle and deskew.  Angles are counted in half degrees, so the *)
(* scan -15, -14.5, ..., 15 is -30..30 and |angle| < 0.5 is angle = 0.     *)
(* Math.sin and Math.cos are held in millionths for the 31 angles          *)
(* 0, 0.5, ..., 15 degrees; for the coordinates of the bounded images the  *)
(* roundings and truncations below give the integers the doubles give.     *)
(***************************************************************************)
SinMicro ==
    <<0, 8727, 17452, 26177, 34899, 43619, 52336, 61049, 69756, 78459, 87156,
      95846, 104528, 113203, 121869, 130526, 139173, 147809, 156434, 165048,
      173648, 182236, 190809, 199368, 207912, 216440, 224951, 233445, 241922,
      250380, 258819>>

CosMicro ==
    <<1000000, 999962, 999848, 999657, 999391, 999048, 998630, 998135, 997564,
      996917, 996195, 995396, 994522, 993572, 992546, 991445, 990268, 989016,
      987688, 986286, 984808, 983255, 981627, 979925, 978148, 976296, 974370,
      972370, 970296, 968148, 965926>>

Micro == 1000000

\* Math.sin and Math.cos of angle half degrees, in millionths.
Sin(angle) == IF angle < 0 THEN -SinMicro[1 - angle] ELSE SinMicro[1 + angle]
Cos(angle) == IF angle < 0 THEN CosMicro[1 - angle] ELSE CosMicro[1 + angle]

\* The scan of detectSkewAngle: for (angle = -15; angle <= 15; angle += 0.5)
FirstAngle == -30
LastAngle == 30

\* if (data[idx] < 128): a dark pixel
DarkBelow == 128

\* Math.round(x * sinA + y * cosA)
NewY(x, y, angle) == (x * Sin(angle) + y * Cos(angle) + (Micro \div 2)) \div Micro

\* The pixels counted by the profile: if (data[idx] < 128)
DarkPixels(img) ==
    {q \in (0..(img.width - 1)) \X (0..(img.height - 1)) :
       Pixel(img, q[1], q[2]) < DarkBelow}

\* The horizontal projection profile for one angle: profile[r + 1] is the
\* source's profile[r], the number of dark pixels (x, y) whose newY is r.
Profile(img, angle) ==
    LET dark == DarkPixels(img)
    IN  [r \in 1..img.height |->
           Cardinality({q \in dark : NewY(q[1], q[2], angle) = r - 1})]

RECURSIVE SeqSum(_)
SeqSum(s) == IF s = <<>> THEN 0 ELSE Head(s) + SeqSum(Tail(s))

\* x / n for a number x and a number holding the integer n > 0
NumDivBy(x, n) ==
    IF ~x.finite THEN NaN
    ELSE IF x.m = <<>> THEN x
    ELSE LET d == BigDivSmall(BigShiftLeft(x.m, 6 * LimbBits), n)
         IN  RoundToDouble(x.neg,
                           BigMulSmall(d.q, 2, IF d.r = 0 THEN 0 ELSE 1),
                           x.e - (6 * LimbBits) - 1)

\* profile.reduce((sum, val) => sum + (val - mean) ** 2, 0) from entry i on
RECURSIVE SquaredDeviations(_, _, _, _)
SquaredDeviations(profile, mean, i, sum) ==
    IF i > Len(profile) THEN sum
    ELSE LET d == NumSub(NumFromInt(profile[i]), mean)
         IN  SquaredDeviations(profile, mean, i + 1, NumAdd(sum, NumMul(d, d)))

\* The variance of the profile, as a double.
ProfileVariance(profile) ==
    LET mean == NumDivInt(SeqSum(profile), Len(profile))
    IN  NumDivBy(SquaredDeviations(profile, mean, 1, NumFromInt(0)), Len(profile))

\* Mutant of BetterAngle: a later angle with an equal variance replaces the
\* best one.
BetterAngle_OrEqual(variance, maxVariance) == ~NumGreater(maxVariance, variance)

\* if (variance > maxVariance)
BetterAngle(variance, maxVariance) == NumGreater(variance, maxVariance)

\* The body of the loop of detectSkewAngle; st is [bestAngle, maxVariance].
SkewStep(img, st, angle) ==
    LET variance == ProfileVariance(Profile(img, angle))
    IN  IF BetterAngle(variance, st.maxVariance)
        THEN [bestAngle |-> angle, maxVariance |-> variance]
        ELSE st

\* The loop of detectSkewAngle over the angles lo..hi, in ascending order.
RECURSIVE SkewScan(_, _, _, _)
SkewScan(img, st, lo, hi) ==
    IF lo = hi THEN SkewStep(img, st, lo)
    ELSE LET mid   == (lo + hi) \div 2
             lower == SkewScan(img, st, lo, mid)
         IN  \* the state after lo..mid is computed before mid + 1..hi is scanned
             IF lower.bestAngle \in FirstAngle..LastAngle
             THEN SkewScan(img, lower, mid + 1, hi)
             ELSE lower

detectSkewAngle(img) ==
    SkewScan(img, [bestAngle |-> 0, maxVariance |-> NumFromInt(0)],
             FirstAngle, LastAngle).bestAngle

\* Mutant of NoSignificantSkew: the early return is missing.
NoSignificantSkew_Never(angle) == FALSE

\* if (Math.abs(angle) < 0.5)
NoSignificantSkew(angle) == Abs(angle) < 1

\* Math.abs(width * cosA) + Math.abs(height * sinA) for radians = -angle, as
\* the canvas takes it: the width attribute and getImageData truncate.
NewWidth(width, height, angle) ==
    (width * Cos(angle) + height * Abs(Sin(angle))) \div Micro

\* Math.abs(width * sinA) + Math.abs(height * cosA), truncated likewise.
NewHeight(width, height, angle) ==
    (width * Abs(Sin(angle)) + height * Cos(angle)) \div Micro

White == 255

\* The temporary canvas after fillRect with white and putImageData at
\* (0, 0), read back with getImageData: putImageData writes the pixels at
\* their own coordinates, whatever the transformation matrix of the context.
PutOnWhite(img, newWidth, newHeight) ==
    [width  |-> newWidth,
     height |-> newHeight,
     data   |-> [i \in 1..(newWidth * newHeight) |->
                   LET x == (i - 1) % newWidth
                       y == (i - 1) \div newWidth
                   IN  IF x < img.width /\ y < img.height
                       THEN Pixel(img, x, y) ELSE White]]

\* deskew after its call of detectSkewAngle has returned angle.  The result
\* is the returned buffer, whether it is the argument object itself, and
\* the dimensions of the main canvas.
deskew(canvas, img, angle) ==
    IF NoSignificantSkew(angle)
    THEN [image |-> img, same |-> TRUE, canvas |-> canvas]
    ELSE LET newWidth  == NewWidth(canvas.width, canvas.height, angle)
             newHeight == NewHeight(canvas.width, canvas.height, angle)
         IN  [image  |-> PutOnWhite(img, newWidth, newHeight),
              same   |-> FALSE,
              canvas |-> [width |-> newWidth, height |-> newHeight]]

(***************************************************************************)
(* detectSkewAngle and deskew applied to bounded images (SpecSkew)         *)
(***************************************************************************)
\* The widths and heights of the images.
SkewSides == {1, 2, 3}

\* The most dark pixels of an image.
MaxInk == 2

InkLevel == {0}
PaperLevel == {255}

SkewImages ==
    UNION {UNION {{[width |-> w, height |-> h,
                    data |-> [i \in 1..(w * h) |-> IF i \in ink THEN v[1] ELSE v[2]]] :
                      ink \in {S \in SUBSET (1..(w * h)) : Cardinality(S) <= MaxInk}} :
                  v \in InkLevel \X PaperLevel} :
           w \in SkewSides, h \in SkewSides}

SkewInit ==
    /\ input \in {<<img>> : img \in SkewImages}
    /\ output = <<>>

ApplyDetectSkewAngle ==
    /\ output = <<>>
    /\ output' = <<"detectSkewAngle", detectSkewAngle(input[1])>>
    /\ UNCHANGED <<input, pipeVars>>

\* The main canvas has the dimensions of the buffer.
CanvasOf(img) == [width |-> img.width, height |-> img.height]

\* The rest of deskew once detectSkewAngle has returned.
ApplyDeskew ==
    /\ output # <<>> /\ output[1] = "detectSkewAngle"
    /\ output' = <<"deskew", output[2], deskew(CanvasOf(input[1]), input[1], output[2])>>
    /\ UNCHANGED <<input, pipeVars>>

InitSkew == PipeInit /\ SkewInit

NextSkew == ApplyDetectSkewAngle \/ ApplyDeskew

SpecSkew == InitSkew /\ [][NextSkew]_vars

(***************************************************************************)
(* Morphology: dilate, erode, closing, opening on the R samples (what the  *)
(* code reads; the value it computes is written to R, G and B).            *)
(***************************************************************************)
\* Math.min and Math.max folded over the window, from 255 and from 0.
MinOf(S) == CHOOSE v \in S : \A u \in S : v <= u
MaxOf(S) == CHOOSE v \in S : \A u \in S : v >= u

\* const half = Math.floor(kernelSize / 2)
HalfOf(kernelSize) == kernelSize \div 2

\* Mutant of Visited: the loops start at 0.
Visited_FromZero(img, half) ==
    {q \in (0..(img.width - 1)) \X (0..(img.height - 1)) :
       q[1] < img.width - half /\ q[2] < img.height - half}

\* The pixels the loops over y and x visit: half <= y < height - half and
\* half <= x < width - half.
Visited(img, half) ==
    {q \in (0..(img.width - 1)) \X (0..(img.height - 1)) :
       /\ half <= q[1] /\ q[1] < img.width - half
       /\ half <= q[2] /\ q[2] < img.height - half}

\* The samples read by the loops over ky and kx for pixel (x, y).
WindowSamples(img, x, y, half) ==
    {Pixel(img, x + kx, y + ky) : kx \in (-half)..half, ky \in (-half)..half}

dilate(img, kernelSize) ==
    LET half == HalfOf(kernelSize)
    IN  [img EXCEPT !.data =
           [i \in 1..(img.width * img.height) |->
              LET x == (i - 1) % img.width
                  y == (i - 1) \div img.width
              IN  IF <<x, y>> \in Visited(img, half)
                  THEN MinOf({255} \cup WindowSamples(img, x, y, half))
                  ELSE img.data[i]]]

erode(img, kernelSize) ==
    LET half == HalfOf(kernelSize)
    IN  [img EXCEPT !.data =
           [i \in 1..(img.width * img.height) |->
              LET x == (i - 1) % img.width
                  y == (i - 1) \div img.width
              IN  IF <<x, y>> \in Visited(img, half)
                  THEN MaxOf({0} \cup WindowSamples(img, x, y, half))
                  ELSE img.data[i]]]

\* Mutant of closing: erode runs before dilate.
closing_ErodeFirst(img, kernelSize) == dilate(erode(img, kernelSize), kernelSize)

closing(img, kernelSize) == erode(dilate(img, kernelSize), kernelSize)

\* Mutant of opening: dilate runs before erode.
opening_DilateFirst(img, kernelSize) == erode(dilate(img, kernelSize), kernelSize)

opening(img, kernelSize) == dilate(erode(img, kernelSize), kernelSize)

(***************************************************************************)
(* Morphology applied to bounded images (SpecMorph)                        *)
(***************************************************************************)
\* The largest width and height of an image.
MaxMorphSide == 5

\* kernelSize: 2 and 3 are the sizes the pipeline passes.
KernelSizes == {1, 2, 3}

\* Images of one background level with up to two other pixels: the first
\* at level 0, the second at level 100.
MorphBackgrounds == {50, 255}

\* The sets of at most two of the pixels 1..n.
SpeckSets(n) == {{}} \cup {{i, j} : i \in 1..n, j \in 1..n}

SpeckImages ==
    UNION {UNION {{[width |-> w, height |-> h,
                    data |-> [i \in 1..(w * h) |->
                                IF i \notin S THEN bg
                                ELSE IF i = MinOf(S) THEN 0 ELSE 100]] :
                      S \in SpeckSets(w * h)} :
                  bg \in MorphBackgrounds} :
           w \in 1..MaxMorphSide, h \in 1..MaxMorphSide}

\* A white image with a dark line on row y from column a to column b, but
\* for a gap of one pixel at column g, a < g < b.
LineWithGap(w, h, y, a, g, b) ==
    [width |-> w, height |-> h,
     data |-> [i \in 1..(w * h) |->
                 LET x == (i - 1) % w
                     r == (i - 1) \div w
                 IN  IF r = y /\ a <= x /\ x <= b /\ x # g THEN 0 ELSE 255]]

\* The placements <<y, a, g, b>> of a line with a gap in a w x h image.
LinePlacements(w, h) ==
    {q \in (0..(h - 1)) \X (0..(w - 1)) \X (0..(w - 1)) \X (0..(w - 1)) :
       q[2] < q[3] /\ q[3] < q[4]}

\* The arguments: the image, kernelSize, and how the image was drawn.
MorphInputs ==
    {<<img, k, <<"specks">>>> : img \in SpeckImages, k \in KernelSizes}
      \cup UNION {{<<LineWithGap(w, h, p[1], p[2], p[3], p[4]), k, <<"line">> \o p>> :
                      p \in LinePlacements(w, h), k \in KernelSizes} :
                   w \in 1..MaxMorphSide, h \in 1..MaxMorphSide}

MorphInit ==
    /\ input \in MorphInputs
    /\ output = <<>>

ApplyDilate ==
    /\ output = <<>>
    /\ output' = <<"dilate", dilate(input[1], input[2])>>
    /\ UNCHANGED <<input, pipeVars>>

ApplyErode ==
    /\ output = <<>>
    /\ output' = <<"erode", erode(input[1], input[2])>>
    /\ UNCHANGED <<input, pipeVars>>

ApplyClosing ==
    /\ output = <<>>
    /\ output' = <<"closing", closing(input[1], input[2])>>
    /\ UNCHANGED <<input, pipeVars>>

ApplyOpening ==
    /\ output = <<>>
    /\ output' = <<"opening", opening(input[1], input[2])>>
    /\ UNCHANGED <<input, pipeVars>>

InitMorph == PipeInit /\ MorphInit

NextMorph == ApplyDilate \/ ApplyErode \/ ApplyClosing \/ ApplyOpening

SpecMorph == InitMorph /\ [][NextMorph]_vars

(***************************************************************************)
(* The array accesses of the windowed stages: dilate, erode, denoise,      *)
(* medianFilter, sharpen and bilateralFilter share their loops; the model  *)
(* records which samples each stage reads and which indices of output it   *)
(* writes (output starts as a copy of data).                               *)
(***************************************************************************)
MorphStages == {"dilate", "erode"}
RadiusStages == {"denoise", "medianFilter", "bilateralFilter"}
WindowedStages == MorphStages \cup RadiusStages \cup {"sharpen"}

\* The half-width of the window: floor(kernelSize / 2), radius, or 1 for
\* the 3 x 3 kernel of sharpen.
HalfWidth(stage, param) ==
    IF stage \in MorphStages THEN HalfOf(param)
    ELSE IF stage = "sharpen" THEN 1
    ELSE param

\* dilate and erode read data[idx] only; the filters loop over c = 0, 1, 2.
ReadChannels(stage) == IF stage \in MorphStages THEN {0} ELSE {0, 1, 2}

\* The samples read: column, row, channel and the index the code computes,
\* ((y + dy) * width + (x + dx)) * 4 + c.
StageReads(stage, img, param) ==
    LET half == HalfWidth(stage, param)
    IN  {[col |-> q[1] + dx, row |-> q[2] + dy, channel |-> c,
          idx |-> ((q[2] + dy) * img.width + (q[1] + dx)) * 4 + c] :
           q \in Visited(img, half), dx \in (-half)..half, dy \in (-half)..half,
           c \in ReadChannels(stage)}

\* The indices of output written: (y * width + x) * 4 + c for c = 0, 1, 2.
StageWrites(stage, img, param) ==
    {(q[2] * img.width + q[1]) * 4 + c :
       q \in Visited(img, HalfWidth(stage, param)), c \in {0, 1, 2}}

(***************************************************************************)
(* The windowed stages applied to bounded image sizes (SpecWindow)         *)
(***************************************************************************)
\* The largest width and height of an image.
MaxWindowSide == 7

\* radius: the pipeline passes 1, 2 and 3.
Radii == {1, 2, 3}

\* kernelSize of dilate and erode.
WindowKernelSizes == {1, 2, 3, 4, 5}

StageParams(stage) ==
    IF stage \in MorphStages THEN WindowKernelSizes
    ELSE IF stage = "sharpen" THEN {0}
    ELSE Radii

WindowInit ==
    /\ input \in UNION {{<<stage, [width |-> w, height |-> h], p>> :
                           w \in 1..MaxWindowSide, h \in 1..MaxWindowSide,
                           p \in StageParams(stage)} :
                        stage \in WindowedStages}
    /\ output = <<>>

ApplyWindowedStage ==
    /\ output = <<>>
    /\ output' = <<[reads  |-> StageReads(input[1], input[2], input[3]),
                    writes |-> StageWrites(input[1], input[2], input[3])]>>
    /\ UNCHANGED <<input, pipeVars>>

InitWindow == PipeInit /\ WindowInit

NextWindow == ApplyWindowedStage

SpecWindow == InitWindow /\ [][NextWindow]_vars

(***************************************************************************)
(* The batch queue (useBatchQueue).  items is the React state, every run   *)
(* of startProcessing iterates over the pending items of the render it was *)
(* created in, pauseRef and abortRef are shared by all runs.  A run record *)
(* holds the position of one startProcessing call:                         *)
(*   pendingItems - const pendingItems (copies of the items)               *)
(*   idx          - the position of the for loop                           *)
(*   phase        - the await the run is at                                *)
(*   doc          - const doc of processItem (index into documents, or 0)  *)
(*   began        - what the queue held for the item when processItem      *)
(*                  started on it, <<>> when it was no longer in the queue *)
(*   stopped      - stopProcessing was called while the run was going      *)
(***************************************************************************)
\* The most files ever added to the queue.
MaxFiles == 2

\* The most calls of startProcessing.
MaxRuns == 2

\* OCR_LANGUAGES (two of them)
Languages == {"auto", "eng"}

\* const processing / terminal statuses of a QueueItem
Terminal == {"completed", "failed"}

\* What the queue does not touch.
nonQueueVars == <<options, opts, pc, calls, imageData, dataURL, promise, input, output,
                  ocr, status, editorVars>>

ItemIds(its) == {its[k].id : k \in 1..Len(its)}

ItemOf(its, id) == CHOOSE it \in {its[k] : k \in 1..Len(its)} : it.id = id

\* setItems(prev => prev.map(item => item.id === id ? { ...item, ...updates } : item))
updateItem(its, id, updates) ==
    [k \in 1..Len(its) |->
        IF its[k].id = id
        THEN [f \in DOMAIN its[k] |->
                 IF f \in DOMAIN updates THEN updates[f] ELSE its[k][f]]
        ELSE its[k]]

Active(run) == run.phase # "done"

\* A call of startProcessing that has returned.
Returned ==
    [pendingItems |-> <<>>, idx |-> 0, phase |-> "done", doc |-> 0, began |-> <<>>,
     stopped |-> FALSE, afterStop |-> FALSE]

\* addFiles([file], defaultLanguage)
QueueAddFiles ==
    /\ queueItemId < MaxFiles
    /\ queueItemId' = queueItemId + 1
    /\ \E defaultLanguage \in Languages :
         items' = Append(items, [id |-> queueItemId + 1, language |-> defaultLanguage,
                                 status |-> "pending", progress |-> 0,
                                 error |-> FALSE])
    /\ UNCHANGED <<isProcessing, isPaused, pauseRef, abortRef, runs, documents>>
    /\ UNCHANGED nonQueueVars

\* updateLanguage(id, language); the selector is enabled for pending and
\* failed items.
UpdateLanguage ==
    /\ \E k \in 1..Len(items), language \in Languages :
         /\ items[k].status \in {"pending", "failed"}
         /\ language # items[k].language
         /\ items' = updateItem(items, items[k].id, [language |-> language])
    /\ UNCHANGED <<queueItemId, isProcessing, isPaused, pauseRef, abortRef, runs,
                   documents>>
    /\ UNCHANGED nonQueueVars

\* removeItem(id); the button is disabled while the item is processing.
RemoveItem ==
    /\ \E k \in 1..Len(items) :
         /\ items[k].status # "processing"
         /\ LET id == items[k].id
                Keep(it) == it.id # id
            IN  items' = SelectSeq(items, Keep)
    /\ UNCHANGED <<queueItemId, isProcessing, isPaused, pauseRef, abortRef, runs,
                   documents>>
    /\ UNCHANGED nonQueueVars

\* retryItem(id), offered for failed items
RetryItem ==
    /\ \E k \in 1..Len(items) :
         /\ items[k].status = "failed"
         /\ items' = updateItem(items, items[k].id,
                                [status |-> "pending", progress |-> 0, error |-> FALSE])
    /\ UNCHANGED <<queueItemId, isProcessing, isPaused, pauseRef, abortRef, runs,
                   documents>>
    /\ UNCHANGED nonQueueVars

\* retryAllFailed(), offered when there are failed items and no run is on
RetryAllFailed ==
    /\ ~isProcessing
    /\ \E k \in 1..Len(items) : items[k].status = "failed"
    /\ items' = [k \in 1..Len(items) |->
                    IF items[k].status = "failed"
                    THEN [items[k] EXCEPT !.status = "pending", !.progress = 0,
                                          !.error = FALSE]
                    ELSE items[k]]
    /\ UNCHANGED <<queueItemId, isProcessing, isPaused, pauseRef, abortRef, runs,
                   documents>>
    /\ UNCHANGED nonQueueVars

\* processItem(item), to its first await: updateItem(item.id, { status:
\* 'processing', progress: 0 }) and createDocument.mutateAsync(...).
BeginItem(run, its, k) ==
    LET item == run.pendingItems[k]
    IN  [runs  |-> [run EXCEPT !.idx = k, !.phase = "createDocument", !.doc = 0,
                               !.began = IF item.id \in ItemIds(its)
                                         THEN <<ItemOf(its, item.id)>> ELSE <<>>,
                               !.afterStop = run.stopped],
         items |-> updateItem(its, item.id, [status |-> "processing", progress |-> 0]),
         ends  |-> FALSE]

\* The top of the for loop of startProcessing for position k: the end of the
\* loop, the wait while paused, the break on abort, or the next processItem.
LoopAt(run, its, k) ==
    IF k > Len(run.pendingItems)
    THEN [runs |-> Returned, items |-> its, ends |-> TRUE]
    ELSE IF pauseRef /\ ~abortRef
    THEN [runs |-> [run EXCEPT !.idx = k, !.phase = "waiting"], items |-> its,
          ends |-> FALSE]
    ELSE IF abortRef
    THEN [runs |-> Returned, items |-> its, ends |-> TRUE]
    ELSE BeginItem(run, its, k)

\* What a step of run r leaves behind; a run that ends calls
\* setIsProcessing(false) and setIsPaused(false).
Leave(r, step) ==
    /\ runs' = [runs EXCEPT ![r] = step.runs]
    /\ items' = step.items
    /\ isProcessing' = IF step.ends THEN FALSE ELSE isProcessing
    /\ isPaused' = IF step.ends THEN FALSE ELSE isPaused

\* processItem returned: processedCount++ and the next turn of the loop.
NextTurn(r, its) == Leave(r, LoopAt(runs[r], its, runs[r].idx + 1))

\* catch (error) { updateItem(item.id, { status: 'failed', progress: 0, error }) }
Catch(r) ==
    NextTurn(r, updateItem(items, runs[r].pendingItems[runs[r].idx].id,
                           [status |-> "failed", progress |-> 0, error |-> TRUE]))

\* startProcessing(), offered while isProcessing is false and items are pending
StartProcessing ==
    /\ ~isProcessing
    /\ Len(runs) < MaxRuns
    /\ \E k \in 1..Len(items) : items[k].status = "pending"
    /\ pauseRef' = FALSE
    /\ abortRef' = FALSE
    /\ LET IsPending(it) == it.status = "pending"
           run  == [pendingItems |-> SelectSeq(items, IsPending), idx |-> 1,
                    phase |-> "start", doc |-> 0, began |-> <<>>,
                    stopped |-> FALSE, afterStop |-> FALSE]
           step == BeginItem(run, items, 1)
       IN  /\ runs' = Append(runs, step.runs)
           /\ items' = step.items
    /\ isProcessing' = TRUE
    /\ isPaused' = FALSE
    /\ UNCHANGED <<queueItemId, documents>>
    /\ UNCHANGED nonQueueVars

\* pauseProcessing(), offered while a run is on and not paused
PauseProcessing ==
    /\ isProcessing /\ ~isPaused
    /\ pauseRef' = TRUE
    /\ isPaused' = TRUE
    /\ UNCHANGED <<queueItemId, items, isProcessing, abortRef, runs, documents>>
    /\ UNCHANGED nonQueueVars

\* resumeProcessing(), offered while paused
ResumeProcessing ==
    /\ isProcessing /\ isPaused
    /\ pauseRef' = FALSE
    /\ isPaused' = FALSE
    /\ UNCHANGED <<queueItemId, items, isProcessing, abortRef, runs, documents>>
    /\ UNCHANGED nonQueueVars

\* stopProcessing() during a run
StopProcessing ==
    /\ \E r \in 1..Len(runs) : Active(runs[r])
    /\ abortRef' = TRUE
    /\ pauseRef' = FALSE
    /\ isProcessing' = FALSE
    /\ isPaused' = FALSE
    /\ runs' = [r \in 1..Len(runs) |->
                   IF Active(runs[r]) THEN [runs[r] EXCEPT !.stopped = TRUE]
                   ELSE runs[r]]
    /\ UNCHANGED <<queueItemId, items, documents>>
    /\ UNCHANGED nonQueueVars

\* while (pauseRef.current && !abortRef.current) await setTimeout(100): the
\* timer fired and the pause is over.
PauseWaitOver ==
    /\ \E r \in 1..Len(runs) :
         /\ runs[r].phase = "waiting"
         /\ ~(pauseRef /\ ~abortRef)
         /\ Leave(r, LoopAt(runs[r], items, runs[r].idx))
    /\ UNCHANGED <<queueItemId, pauseRef, abortRef, documents>>
    /\ UNCHANGED nonQueueVars

\* await createDocument.mutateAsync(...): the record is inserted with status
\* 'pending', or the insert fails.  On success processItem goes on to
\* detectLanguage (language 'auto') and performOCR with item.language.
CreateDocumentSettles ==
    /\ \E r \in 1..Len(runs), created \in BOOLEAN :
          /\ runs[r].phase = "createDocument"
          /\ LET item == runs[r].pendingItems[runs[r].idx]
             IN  IF created
                 THEN /\ documents' = Append(documents,
                                             [file |-> item.id, status |-> "pending"])
                      /\ runs' = [runs EXCEPT ![r].phase = "performOCR",
                                              ![r].doc = Len(documents) + 1]
                      /\ items' = updateItem(items, item.id, [progress |-> 20])
                      /\ UNCHANGED <<isProcessing, isPaused>>
                 ELSE /\ Catch(r)
                      /\ UNCHANGED documents
          /\ UNCHANGED <<queueItemId, pauseRef, abortRef>>
    /\ UNCHANGED nonQueueVars

\* await performOCR(...) settles: a result, or an error for the catch.
PerformOCRSettles ==
    /\ \E r \in 1..Len(runs), recognized \in BOOLEAN :
          /\ runs[r].phase = "performOCR"
          /\ IF recognized
             THEN /\ runs' = [runs EXCEPT ![r].phase = "updateDocument"]
                  /\ UNCHANGED <<items, isProcessing, isPaused>>
             ELSE Catch(r)
          /\ UNCHANGED <<queueItemId, pauseRef, abortRef, documents>>
    /\ UNCHANGED nonQueueVars

\* A stage threw inside img.onload: the promise of preprocess, and with it
\* the promise of performOCR, never settles (StageThrows).
PerformOCRNeverSettles ==
    /\ \E r \in 1..Len(runs) :
         /\ runs[r].phase = "performOCR"
         /\ runs' = [runs EXCEPT ![r].phase = "never"]
    /\ UNCHANGED <<queueItemId, items, isProcessing, isPaused, pauseRef, abortRef,
                   documents>>
    /\ UNCHANGED nonQueueVars

\* await updateDocument.mutateAsync({ ..., status: 'completed' }), then
\* updateItem(item.id, { status: 'completed', progress: 100 }); a failed
\* update lands in the catch.
UpdateDocumentSettles ==
    /\ \E r \in 1..Len(runs), updated \in BOOLEAN :
          /\ runs[r].phase = "updateDocument"
          /\ LET item == runs[r].pendingItems[runs[r].idx]
             IN  IF updated
                 THEN /\ documents' = [documents EXCEPT ![runs[r].doc].status = "completed"]
                      /\ NextTurn(r, updateItem(items, item.id,
                                                [status |-> "completed", progress |-> 100]))
                 ELSE /\ Catch(r)
                      /\ UNCHANGED documents
          /\ UNCHANGED <<queueItemId, pauseRef, abortRef>>
   
    /\ UNCHANGED nonQueueVars
InitQueue == PipeInit /\ FnIdle

NextQueue ==
    \/ QueueAddFiles
    \/ UpdateLanguage
    \/ RemoveItem
    \/ RetryItem
    \/ RetryAllFailed
    \/ StartProcessing
    \/ PauseProcessing
    \/ ResumeProcessing
    \/ StopProcessing
    \/ PauseWaitOver
    \/ CreateDocumentSettles
    \/ PerformOCRSettles
    \/ PerformOCRNeverSettles
    \/ UpdateDocumentSettles

SpecQueue == InitQueue /\ [][NextQueue]_vars

(***************************************************************************)
(* The text editor history (useTextEditor).  setHistory(updater) does not  *)
(* say when the updater runs: React runs it at once when the component has *)
(* no update pending (eager state) and otherwise during the next render,   *)
(* that is after the handler has returned.  The updater of setText reads   *)
(* debounceTimer.current, which setText itself sets after the setHistory   *)
(* call, so the two orders differ.  Every handler runs to its end and the  *)
(* component is rendered before the next handler or timer.                 *)
(***************************************************************************)
\* maxHistory
MaxHistory == 2

Texts == {"a", "b", "c"}

\* What the editor does not touch.
nonEditorVars == <<options, opts, pc, calls, imageData, dataURL, promise, input, output,
                   ocr, status, queueVars>>

\* Mutant of PushPast: the oldest entry is never dropped.
PushPast_NoLimit(prev) == Append(prev.past, prev.present)

\* const newPast = [...prev.past, prev.present];
\* if (newPast.length > maxHistory) newPast.shift()
PushPast(prev) ==
    LET newPast == Append(prev.past, prev.present)
    IN  IF Len(newPast) > MaxHistory THEN Tail(newPast) ELSE newPast

\* The updater of commitChange.
commitChange(prev, newText) ==
    IF newText = prev.present THEN prev
    ELSE [past |-> PushPast(prev), present |-> newText, future |-> <<>>]

\* The updater of setText; alreadyPending is debounceTimer.current !== null
\* at the moment the updater runs.
SetTextUpdater(prev, newText, alreadyPending) ==
    IF ~alreadyPending
    THEN [past |-> PushPast(prev), present |-> newText, future |-> <<>>]
    ELSE [prev EXCEPT !.present = newText]

\* The updater of redo.
RedoUpdater(prev) ==
    IF prev.future = <<>> THEN prev
    ELSE [past |-> Append(prev.past, prev.present), present |-> Head(prev.future),
          future |-> Tail(prev.future)]

\* The updater of undo.
UndoUpdater(prev) ==
    IF prev.past = <<>> THEN prev
    ELSE [past |-> SubSeq(prev.past, 1, Len(prev.past) - 1),
          present |-> prev.past[Len(prev.past)],
          future |-> <<prev.present>> \o prev.future]

\* setText(newText): the updater runs inside the setHistory call (eager),
\* when the timer of this call is not yet set, or at the render after the
\* handler, when it is.
SetText ==
    /\ \E newText \in Texts, eager \in BOOLEAN :
         /\ pendingText' = newText
         /\ history' = SetTextUpdater(history, newText,
                                      IF eager THEN debounceTimer ELSE TRUE)
    /\ debounceTimer' = TRUE
    /\ UNCHANGED nonEditorVars

\* The debounce timer fires: commitChange(pendingText.current)
TimerFires ==
    /\ debounceTimer
    /\ IF pendingText # None
       THEN /\ history' = commitChange(history, pendingText)
            /\ pendingText' = None
            /\ debounceTimer' = FALSE
       ELSE UNCHANGED <<history, pendingText, debounceTimer>>
    /\ UNCHANGED nonEditorVars

\* undo()
Undo ==
    /\ debounceTimer' = FALSE
    /\ pendingText' = None
    /\ history' = UndoUpdater(history)
    /\ UNCHANGED nonEditorVars

\* redo()
Redo ==
    /\ debounceTimer' = FALSE
    /\ pendingText' = None
    /\ history' = RedoUpdater(history)
    /\ UNCHANGED nonEditorVars

\* reset(newText)
Reset ==
    /\ debounceTimer' = FALSE
    /\ pendingText' = None
    /\ \E newText \in Texts :
         history' = [past |-> <<>>, present |-> newText, future |-> <<>>]
    /\ UNCHANGED nonEditorVars

InitEditor == PipeInit /\ FnIdle

NextEditor ==
    \/ SetText
    \/ TimerFires
    \/ Undo
    \/ Redo
    \/ Reset

SpecEditor == InitEditor /\ [][NextEditor]_vars

(***************************************************************************)
(* Properties of preprocess (SpecPipe)                                     *)
(***************************************************************************)
\* The place of a method in the order of section 4.6.
StageRank(name) ==
    CASE name = "upscale" -> 1
      [] name = "toGrayscale" -> 2
      [] name = "deskew" -> 3
      [] name \in {"bilateralFilter", "medianFilter", "denoise"} -> 4
      [] name = "increaseContrast" -> 5
      [] name = "opening" -> 6
      [] name = "closing" -> 7
      [] name \in {"unsharpMask", "sharpen"} -> 8
      [] name \in {"adaptiveThreshold", "threshold"} -> 9

\* The calls of the log whose method is one of names, in order.
CallsOf(names) == SelectSeq(calls, LAMBDA c : c[1] \in names)

Names(s) == [i \in DOMAIN s |-> s[i][1]]

\* The handler has finished the step that leaves pc at one of these values.
After(pcs) == pc \in pcs \/ (pc = "done" /\ promise = "resolved")

Resolved == pc = "done" /\ promise = "resolved"

AfterStep3 == After({"step4", "step5", "step6", "step7", "encode"})
AfterStep5 == After({"step6", "step7", "encode"})
AfterStep6 == After({"step7", "encode"})
AfterStep7 == After({"encode"})

\* C1: the stages of one preprocess call run in the order upscale, grayscale,
\* deskew, noise reduction, contrast, opening, closing, edge enhancement,
\* binarization, each at most once, and a binarizer that ran is the last
\* call before the image is encoded.
C1_StageOrder ==
    /\ \A i, j \in DOMAIN calls :
         i < j => StageRank(calls[i][1]) < StageRank(calls[j][1])
    /\ (AfterStep7 /\ CallsOf({"adaptiveThreshold", "threshold"}) # <<>>)
         => StageRank(calls[Len(calls)][1]) = 9
    /\ Resolved => dataURL = imageData

C1_Witness ==
    /\ Resolved
    /\ Names(calls) = <<"upscale", "toGrayscale", "deskew", "bilateralFilter",
                        "increaseContrast", "opening", "closing", "unsharpMask",
                        "adaptiveThreshold">>

\* C2: the noise stage is the bilateral filter (radius 3 handwritten, 2
\* printed, sigmas 40) when bilateralFilter is enabled, whatever denoise is;
\* otherwise medianFilter(2) (handwritten) or denoise (printed) when denoise
\* is enabled; otherwise nothing. With mode handwritten and every toggle
\* enabled the call sequence is decided by bilateralFilter.
AllTogglesBut(f) == \A t \in Toggles \ {f} : Truthy(opts, t)

C2_NoisePriority ==
    AfterStep3 =>
      /\ CallsOf({"bilateralFilter", "medianFilter", "denoise"}) =
           IF Truthy(opts, "bilateralFilter")
           THEN << <<"bilateralFilter", IF Handwritten(opts) THEN 3 ELSE 2, 40, 40>> >>
           ELSE IF Truthy(opts, "denoise")
           THEN IF Handwritten(opts)
                THEN << <<"medianFilter", 2>> >>
                ELSE << <<"denoise">> >>
           ELSE <<>>
      /\ (Resolved /\ Handwritten(opts) /\ AllTogglesBut("bilateralFilter"))
           => Names(calls) =
                <<"upscale", "toGrayscale", "deskew",
                  IF Truthy(opts, "bilateralFilter")
                  THEN "bilateralFilter" ELSE "medianFilter",
                  "increaseContrast", "opening", "closing", "unsharpMask",
                  "adaptiveThreshold">>

C2_Witness ==
    /\ Resolved
    /\ Handwritten(opts)
    /\ AllTogglesBut("bilateralFilter")
    /\ ~Truthy(opts, "bilateralFilter")
    /\ calls[4] = <<"medianFilter", 2>>

\* C3: adaptiveThreshold runs when its toggle is enabled, whatever threshold
\* is; the Otsu threshold runs only when adaptiveThreshold is disabled and
\* threshold is enabled; with both disabled no binarizer runs, step 7 leaves
\* the image as the earlier stages made it and that image is encoded.
C3_BinarizerState ==
    /\ AfterStep7 =>
         CallsOf({"adaptiveThreshold", "threshold"}) =
           IF Truthy(opts, "adaptiveThreshold")
           THEN << <<"adaptiveThreshold",
                     Coalesce(opts, "adaptiveBlockSize", 15),
                     Coalesce(opts, "adaptiveC", 5)>> >>
           ELSE IF Truthy(opts, "threshold")
           THEN << <<"threshold">> >>
           ELSE <<>>
    /\ Resolved => dataURL = imageData

C3_OneBinarizer ==
    /\ []C3_BinarizerState
    /\ [][(pc = "step7" /\ ~Truthy(opts, "adaptiveThreshold")
                        /\ ~Truthy(opts, "threshold"))
            => imageData' = imageData]_vars

C3_Witness ==
    /\ Resolved
    /\ Truthy(opts, "adaptiveThreshold")
    /\ Truthy(opts, "threshold")
    /\ Len(CallsOf({"adaptiveThreshold", "threshold"})) = 1

\* C4: the edge stage is unsharpMask (amount 2.0 handwritten, 1.5 printed,
\* radius 1) when unsharpMask is enabled; otherwise sharpen exactly when
\* sharpen is enabled and mode is not handwritten. sharpen never runs in
\* handwritten mode.
C4_EdgeStage ==
    AfterStep6 =>
      /\ CallsOf({"unsharpMask", "sharpen"}) =
           IF Truthy(opts, "unsharpMask")
           THEN << <<"unsharpMask", IF Handwritten(opts) THEN 20 ELSE 15, 1>> >>
           ELSE IF Truthy(opts, "sharpen") /\ ~Handwritten(opts)
           THEN << <<"sharpen">> >>
           ELSE <<>>
      /\ Handwritten(opts) => CallsOf({"sharpen"}) = <<>>

C4_Witness ==
    /\ Resolved
    /\ Handwritten(opts)
    /\ Truthy(opts, "sharpen")
    /\ ~Truthy(opts, "unsharpMask")
    /\ CallsOf({"unsharpMask", "sharpen"}) = <<>>

\* C5: upscale(2) runs exactly when upscale is enabled and mode is
\* handwritten, and then it is the first call; opening(2) directly followed
\* by closing(3) runs exactly when morphology is enabled and mode is
\* handwritten. With mode printed or absent neither runs.
C5_HandwrittenOnly ==
    /\ After({"step1", "step2", "step3", "step4", "step5", "step6", "step7",
              "encode"}) =>
         /\ CallsOf({"upscale"}) =
              IF Truthy(opts, "upscale") /\ Handwritten(opts)
              THEN << <<"upscale", 2>> >> ELSE <<>>
         /\ CallsOf({"upscale"}) # <<>> => calls[1] = <<"upscale", 2>>
         /\ ~Handwritten(options) => CallsOf({"upscale"}) = <<>>
    /\ AfterStep5 =>
         /\ CallsOf({"opening", "closing", "erode", "dilate"}) =
              IF Truthy(opts, "morphology") /\ Handwritten(opts)
              THEN << <<"opening", 2>>, <<"closing", 3>> >> ELSE <<>>
         /\ \A i \in DOMAIN calls :
              calls[i][1] = "opening" =>
                 i < Len(calls) /\ calls[i + 1] = <<"closing", 3>>
         /\ ~Handwritten(options) =>
              CallsOf({"opening", "closing", "erode", "dilate"}) = <<>>

C5_Witness ==
    /\ Resolved
    /\ "mode" \in DOMAIN options /\ options["mode"] = "printed"
    /\ "upscale" \in DOMAIN options /\ options["upscale"] = TRUE
    /\ "morphology" \in DOMAIN options /\ options["morphology"] = TRUE
    /\ CallsOf({"upscale", "opening", "closing"}) = <<>>

\* C6: for every field, the effective option is the caller's value when the
\* caller supplied the field and otherwise the value of the preset selected
\* by the caller's mode (handwritten preset for mode handwritten, printed
\* preset for mode printed or absent); the numeric arguments the stages
\* receive are these values; the effective options are fixed before the
\* first stage and no stage changes them.
PresetOf(o) ==
    IF "mode" \in DOMAIN o /\ o["mode"] = "handwritten"
    THEN getDefaultHandwrittenOptions
    ELSE getDefaultPrintedOptions

\* The value of field f in force: the caller's, else the preset's, else the
\* printed default d.
Effective(f, d) ==
    IF f \in DOMAIN options THEN options[f]
    ELSE IF f \in DOMAIN PresetOf(options) THEN PresetOf(options)[f]
    ELSE d

C6_EffectiveState ==
    pc # "idle" =>
      /\ \A f \in Fields :
           IF f \in DOMAIN options
           THEN f \in DOMAIN opts /\ opts[f] = options[f]
           ELSE IF f \in DOMAIN PresetOf(options)
           THEN f \in DOMAIN opts /\ opts[f] = PresetOf(options)[f]
           ELSE f \notin DOMAIN opts
      /\ \A i \in DOMAIN calls :
           /\ calls[i][1] = "increaseContrast" =>
                calls[i][2] = Effective("contrastFactor", 13)
           /\ calls[i][1] = "adaptiveThreshold" =>
                /\ calls[i][2] = Effective("adaptiveBlockSize", 15)
                /\ calls[i][3] = Effective("adaptiveC", 5)

C6_EffectiveOptions ==
    /\ []C6_EffectiveState
    /\ [][pc # "idle" => (opts' = opts /\ options' = options)]_vars

C6_Witness ==
    /\ Resolved
    /\ "mode" \notin DOMAIN options
    /\ "adaptiveThreshold" \in DOMAIN options /\ options["adaptiveThreshold"] = TRUE
    /\ "contrastFactor" \in DOMAIN options
    /\ CallsOf({"increaseContrast"}) = << <<"increaseContrast", 20>> >>
    /\ CallsOf({"adaptiveThreshold"}) = << <<"adaptiveThreshold", 15, 5>> >>

(***************************************************************************)
(* Properties of calculateOtsuThreshold (SpecOtsu)                         *)
(***************************************************************************)
Values(data) == {data[i] : i \in DOMAIN data}

CountLE(data, t) == Cardinality({i \in DOMAIN data : data[i] <= t})

\* The sum of the luminances <= t among data[1..n].
RECURSIVE SumLE(_, _, _)
SumLE(data, t, n) ==
    IF n = 0 THEN 0
    ELSE (IF data[n] <= t THEN data[n] ELSE 0) + SumLE(data, t, n - 1)

\* The candidates t with a non-empty background (<= t) and foreground (> t).
ValidCandidates(data) ==
    {t \in 0..(HistogramBins - 1) :
        CountLE(data, t) > 0 /\ CountLE(data, t) < Len(data)}

\* The between-class variance at t as an exact fraction num / den:
\* wB * wF * (sumB / wB - sumF / wF)^2 = (sumB * wF - sumF * wB)^2 / (wB * wF).
ExactVariance(data, t) ==
    LET wB   == CountLE(data, t)
        wF   == Len(data) - wB
        sumB == SumLE(data, t, Len(data))
        sumF == SumLE(data, HistogramBins, Len(data)) - sumB
        n    == sumB * wF - sumF * wB
    IN  [t |-> t, num |-> n * n, den |-> wB * wF]

FracLess(a, b) == a.num * b.den < b.num * a.den

\* The smallest valid candidate whose exact variance no candidate exceeds.
FirstExactMaximum(data) ==
    LET scored == {ExactVariance(data, t) : t \in ValidCandidates(data)}
        best   == {a \in scored : \A b \in scored : ~FracLess(a, b)}
    IN  (CHOOSE a \in best : \A b \in best : a.t <= b.t).t

IsBimodal50_200(data) ==
    /\ Values(data) = {50, 200}
    /\ Cardinality({i \in DOMAIN data : data[i] = 50}) =
         Cardinality({i \in DOMAIN data : data[i] = 200})

Degenerate(data) == Cardinality(Values(data)) <= 1

\* C7 as stated: on two equal clusters at 50 and 200 the threshold is
\* strictly between 50 and 200.
C7_StrictlyBetween ==
    (output # <<>> /\ IsBimodal50_200(input[1]))
      => (50 < output[1].threshold /\ output[1].threshold < 200)

\* C7 as amended: on two equal clusters at 50 and 200 the threshold is 50,
\* the lower cluster's value: 50 <= t < 200.
C7_LowerCluster ==
    (output # <<>> /\ IsBimodal50_200(input[1]))
      => output[1].threshold = 50

C7_Witness ==
    /\ output # <<>>
    /\ IsBimodal50_200(input[1])
    /\ Len(input[1]) >= 4
    /\ output[1].threshold = 50

\* C8: for an image with at least two distinct luminances the threshold is
\* the smallest t, among the candidates with both classes non-empty, that
\* maximizes the between-class variance wB * wF * (mB - mF)^2.
C8_FirstExactMaximum ==
    (output # <<>> /\ ~Degenerate(input[1]))
      => output[1].threshold = FirstExactMaximum(input[1])

\* C9: for an image of one luminance (any of 0..255) and for an image
\* without pixels no division by 0 is evaluated and the result is an
\* integer in 0..255 that is 0 or the last valid candidate.
C9_Degenerate ==
    (output # <<>> /\ Degenerate(input[1]))
      => /\ ~output[1].divByZero
         /\ output[1].threshold \in 0..(HistogramBins - 1)
         /\ \/ output[1].threshold = 0
            \/ /\ ValidCandidates(input[1]) # {}
               /\ \A t \in ValidCandidates(input[1]) : t <= output[1].threshold
               /\ output[1].threshold \in ValidCandidates(input[1])

C9_Witness ==
    /\ output # <<>>
    /\ Len(input[1]) = 3
    /\ Values(input[1]) = {200}
    /\ output[1].threshold = 0
    /\ ~output[1].divByZero

(***************************************************************************)
(* Properties of adaptiveThreshold (SpecAdapt)                             *)
(***************************************************************************)
RECURSIVE SumOver(_, _)
SumOver(img, cells) ==
    IF cells = {} THEN 0
    ELSE LET p == CHOOSE q \in cells : TRUE
         IN  Pixel(img, p[1], p[2]) + SumOver(img, cells \ {p})

\* The naive reference: the mean over the in-image pixels within
\* floor(blockSize / 2) of (x, y) in both directions, compared exactly:
\* pixel > sum / n - c  iff  (pixel + c) * n > sum.
NaiveValue(img, blockSize, c, x, y) ==
    LET half   == blockSize \div 2
        window == {q \in (0..(img.width - 1)) \X (0..(img.height - 1)) :
                     Abs(q[1] - x) <= half /\ Abs(q[2] - y) <= half}
        n      == Cardinality(window)
    IN  IF (Pixel(img, x, y) + c) * n > SumOver(img, window) THEN 255 ELSE 0

NaiveAdaptiveThreshold(img, blockSize, c) ==
    [width  |-> img.width,
     height |-> img.height,
     data   |-> [i \in 1..(img.width * img.height) |->
                   NaiveValue(img, blockSize, c,
                              (i - 1) % img.width, (i - 1) \div img.width)]]

\* C10: adaptiveThreshold, computed with the integral image, returns
\* exactly the image of the naive reference that thresholds each pixel
\* against the mean of its clamped window minus c.
C10_IntegralEqualsNaive ==
    output # <<>> =>
      output[1] = NaiveAdaptiveThreshold(input[1], input[2], input[3])

\* A 3 x 3 image with dark pixels, block size 3: the centre pixel has a
\* full window, the others clamped ones, and both output values occur.
C10_Witness ==
    /\ output # <<>>
    /\ input[1].width = 3 /\ input[1].height = 3
    /\ input[2] = 3
    /\ \E i \in DOMAIN input[1].data : input[1].data[i] \notin BackgroundLevels
    /\ \E i, j \in DOMAIN output[1].data :
         output[1].data[i] = 0 /\ output[1].data[j] = 255

(***************************************************************************)
(* Properties of threshold and adaptiveThreshold (SpecBinarize)            *)
(***************************************************************************)
IsBinaryPixel(px) == px[1] \in {0, 255} /\ px[2] = px[1] /\ px[3] = px[1]

\* C11: the output of threshold (explicit value or Otsu value) and of
\* adaptiveThreshold is binary: every pixel's R is 0 or 255 and its G and B
\* equal its R.
C11_BinaryOutput ==
    output # <<>> =>
      \A p \in DOMAIN output[2].data : IsBinaryPixel(output[2].data[p])

\* threshold with the Otsu value has produced both values from pixels whose
\* G and B differ from R.
C11_Witness ==
    /\ output # <<>>
    /\ output[1] = "threshold" /\ output[3] = <<>>
    /\ \E p, q \in DOMAIN output[2].data :
         /\ output[2].data[p][1] = 0 /\ output[2].data[q][1] = 255
         /\ input[1].data[p][2] # input[1].data[p][1]

(***************************************************************************)
(* Properties of toGrayscale (SpecGray)                                    *)
(***************************************************************************)
\* C12: toGrayscale applied twice gives every pixel the R, G, B of
\* toGrayscale applied once, and every application leaves each pixel's
\* alpha as in the input buffer.
C12_GrayscaleIdempotent ==
    /\ Len(output) = 2 =>
         \A p \in DOMAIN input[1].data :
           \A c \in 1..3 : output[2].data[p][c] = output[1].data[p][c]
    /\ \A k \in DOMAIN output :
         \A p \in DOMAIN input[1].data : output[k].data[p][4] = input[1].data[p][4]

\* A coloured transparent pixel has been converted twice, and the first
\* conversion changed it.
C12_Witness ==
    /\ Len(output) = 2
    /\ input[1].data[1][1] # input[1].data[1][2]
    /\ input[1].data[1][4] = 0
    /\ output[1].data[1][1] # input[1].data[1][1]

(***************************************************************************)
(* Properties of detectSkewAngle and deskew (SpecSkew)                     *)
(***************************************************************************)
Angles == FirstAngle..LastAngle

\* The distinct profiles of the scan paired with their variances.
ProfileVariances(img) ==
    {<<p, ProfileVariance(p)>> : p \in {Profile(img, a) : a \in Angles}}

\* The greatest variance of the scan.
MaximumVariance(pv) ==
    LET values == {p[2] : p \in pv}
    IN  CHOOSE v \in values : \A u \in values : ~NumGreater(u, v)

\* The first angle of the scan whose profile has the greatest variance.
FirstMaximalAngle(img) ==
    LET pv      == ProfileVariances(img)
        max     == MaximumVariance(pv)
        best    == {p[1] : p \in {q \in pv : ~NumGreater(max, q[2])}}
        maximal == {a \in Angles : Profile(img, a) \in best}
    IN  CHOOSE a \in maximal : \A b \in maximal : a <= b

\* The angle that the amended claim names: 0 when every scanned angle has
\* variance 0, otherwise the first angle with the greatest variance.
FirstPositiveMaximum(img) ==
    LET pv      == ProfileVariances(img)
        max     == MaximumVariance(pv)
        best    == {p[1] : p \in {q \in pv : ~NumGreater(max, q[2])}}
        maximal == {a \in Angles : Profile(img, a) \in best}
    IN  IF ~NumGreater(max, NumFromInt(0)) THEN 0
        ELSE CHOOSE a \in maximal : \A b \in maximal : a <= b

\* Every scanned angle has variance 0.
FlatProfiles(img) ==
    ~NumGreater(MaximumVariance(ProfileVariances(img)), NumFromInt(0))

DetectDone == output # <<>> /\ output[1] = "detectSkewAngle"

DeskewDone == output # <<>> /\ output[1] = "deskew"

\* C14: when the detected angle is below 0.5 degrees in absolute value,
\* deskew returns its input buffer itself, with the same width, height and
\* pixels, and leaves the canvas dimensions as they were.
C14_NoOpBelowHalfDegree ==
    (DeskewDone /\ Abs(output[2]) < 1) =>
      /\ output[3].same
      /\ output[3].image = input[1]
      /\ output[3].canvas = CanvasOf(input[1])

\* deskew has run on an image with dark pixels whose detected angle is 0.
C14_Witness ==
    /\ DeskewDone
    /\ output[2] = 0
    /\ DarkPixels(input[1]) # {}
    /\ input[1].width > 1 /\ input[1].height > 1

\* The output pixel that holds the centre of input pixel (x, y) once the
\* image is rotated by -angle about its centre and centred on a canvas of
\* the size of the rotated bounding box (coordinates doubled, in millionths).
RotatedCell(img, x, y, angle) ==
    LET ox == 2 * x + 1 - img.width
        oy == 2 * y + 1 - img.height
        px == (img.width * Cos(angle) + img.height * Abs(Sin(angle)))
                + ox * Cos(angle) + oy * Sin(angle)
        py == (img.width * Abs(Sin(angle)) + img.height * Cos(angle))
                - ox * Sin(angle) + oy * Cos(angle)
    IN  <<px \div (2 * Micro), py \div (2 * Micro)>>

\* C15: when the detected angle is at least 0.5 degrees in absolute value,
\* deskew returns a canvas of the size of the rotated bounding box on which
\* the original image appears rotated by -angle about the centre: every dark
\* pixel of the input is found at its rotated position in the output.
C15_RotatedAndCentred ==
    (DeskewDone /\ Abs(output[2]) >= 1) =>
      /\ output[3].image.width = NewWidth(input[1].width, input[1].height, output[2])
      /\ output[3].image.height = NewHeight(input[1].width, input[1].height, output[2])
      /\ \A q \in DarkPixels(input[1]) :
           LET cell == RotatedCell(input[1], q[1], q[2], output[2])
           IN  (cell[1] \in 0..(output[3].image.width - 1)
                  /\ cell[2] \in 0..(output[3].image.height - 1))
                 => Pixel(output[3].image, cell[1], cell[2]) < White

(***************************************************************************)
(* Properties of the morphology (SpecMorph)                                *)
(***************************************************************************)
\* The in-image pixels of the k x k square whose corner lies ax columns
\* left of and ay rows above (x, y).
Square(img, x, y, k, ax, ay) ==
    {q \in (0..(img.width - 1)) \X (0..(img.height - 1)) :
       /\ x - ax <= q[1] /\ q[1] <= x - ax + k - 1
       /\ y - ay <= q[2] /\ q[2] <= y - ay + k - 1}

SquareSamples(img, x, y, k, ax, ay) ==
    {Pixel(img, q[1], q[2]) : q \in Square(img, x, y, k, ax, ay)}

\* C16: for every kernel size k, even or odd, dilate sets every non-border
\* pixel to the minimum, and erode to the maximum, over a k x k square
\* neighbourhood of the input (the same placement of the square for every
\* pixel); opening(2) therefore filters over 2 x 2 squares.
C16_KernelSquare ==
    (output # <<>> /\ output[1] \in {"dilate", "erode"}) =>
      LET img == input[1]
          k   == input[2]
      IN  \E ax \in 0..(k - 1), ay \in 0..(k - 1) :
            \A q \in Visited(img, HalfOf(k)) :
              Pixel(output[2], q[1], q[2]) =
                IF output[1] = "dilate"
                THEN MinOf(SquareSamples(img, q[1], q[2], k, ax, ay))
                ELSE MaxOf(SquareSamples(img, q[1], q[2], k, ax, ay))

\* closing has run on a white image with a dark line that has a gap.
ClosedLine == output # <<>> /\ output[1] = "closing" /\ input[3][1] = "line"

\* C18 as claimed: closing fills the gap, wherever the line and the gap are
\* and whatever the kernel size is.
C18_GapFilledEverywhere ==
    ClosedLine => Pixel(output[2], input[3][4], input[3][2]) < DarkBelow

\* The gap is at least 2 * floor(k / 2) pixels away from every edge.
GapInside(img, k, y, g) ==
    /\ 2 * HalfOf(k) <= y /\ y <= img.height - 1 - 2 * HalfOf(k)
    /\ 2 * HalfOf(k) <= g /\ g <= img.width - 1 - 2 * HalfOf(k)

\* C18 amended: closing with kernel size 2 or 3 fills the gap when the row
\* of the line and the column of the gap are at least 2 pixels away from
\* every edge of the image.
C18_GapFilledInside ==
    (ClosedLine /\ input[2] \in {2, 3}
       /\ GapInside(input[1], input[2], input[3][2], input[3][4]))
      => Pixel(output[2], input[3][4], input[3][2]) < DarkBelow

\* closing(3) has filled a gap that was white in the input.
C18_Witness ==
    /\ ClosedLine /\ input[2] = 3
    /\ GapInside(input[1], input[2], input[3][2], input[3][4])
    /\ Pixel(input[1], input[3][4], input[3][2]) = White
    /\ Pixel(output[2], input[3][4], input[3][2]) = 0

\* The image is white but for one dark pixel.
SingleSpeck(img) ==
    /\ Cardinality(DarkPixels(img)) = 1
    /\ \A i \in DOMAIN img.data : img.data[i] \in {0, White}

AllWhite(img) == \A i \in DOMAIN img.data : img.data[i] = White

OpenedSpeck == output # <<>> /\ output[1] = "opening" /\ SingleSpeck(input[1])

\* C19 as claimed: opening removes the speck, wherever it is and whatever
\* the kernel size is.
C19_SpeckRemovedEverywhere == OpenedSpeck => AllWhite(output[2])

\* C19 amended: opening with kernel size 2 or 3 returns an all-white image
\* when the speck is at least 1 pixel away from every edge of the image.
C19_SpeckRemovedInside ==
    (OpenedSpeck /\ input[2] \in {2, 3}
       /\ DarkPixels(input[1]) \subseteq Visited(input[1], HalfOf(input[2])))
      => AllWhite(output[2])

\* opening(2) has removed a speck that is not on the border.
C19_Witness ==
    /\ OpenedSpeck /\ input[2] = 2
    /\ DarkPixels(input[1]) \subseteq Visited(input[1], 1)
    /\ AllWhite(output[2])

(***************************************************************************)
(* Properties of the windowed stages (SpecWindow)                          *)
(***************************************************************************)
\* The pixels within half of an edge of the image.
BorderPixels(img, half) ==
    {q \in (0..(img.width - 1)) \X (0..(img.height - 1)) :
       \/ q[1] < half \/ q[1] > img.width - 1 - half
       \/ q[2] < half \/ q[2] > img.height - 1 - half}

C20_ThrowRejects ==
    pc = "thrown" => promise = "rejected"

\* A stage threw and the whole chain is waiting: nothing is enabled any more.
C20_Stalled ==
    /\ pc = "thrown"
    /\ promise = "pending"
    /\ ocr = "pending"
    /\ status = "processing"
    /\ ~ENABLED NextBatch

InProcessItem(run) ==
    run.phase \in {"createDocument", "performOCR", "updateDocument", "never"}

\* The item the run is processing.
Current(run) == run.pendingItems[run.idx]

StatusOf(id) == IF id \in ItemIds(items) THEN ItemOf(items, id).status ELSE "removed"

\* C22: a failure while processing one file is fatal to that file only: the
\* item ends with status failed, progress 0 and an error message, and the run
\* goes on with the remaining items.  A file whose processing has failed for
\* good is a failed item and its run is no longer held by it.
C22_FailureFailsItemOnly ==
    \A r \in 1..Len(runs) :
       runs[r].phase = "never" =>
          /\ Current(runs[r]).id \in ItemIds(items)
          /\ LET it == ItemOf(items, Current(runs[r]).id)
             IN  it.status = "failed" /\ it.progress = 0 /\ it.error

\* C23: after stopProcessing was called during a run, that run starts no
\* further item.
C23_NoStartAfterStop ==
    \A r \in 1..Len(runs) : InProcessItem(runs[r]) => ~runs[r].afterStop

\* C24: files are processed one at a time: at most one item has status
\* processing, and a run starts processItem only on an item whose status is
\* pending (so no item is processed twice from one pending state).
C24_OneAtATime ==
    /\ Cardinality({k \in 1..Len(items) : items[k].status = "processing"}) <= 1
    /\ \A r \in 1..Len(runs) :
          (InProcessItem(runs[r]) /\ runs[r].began # <<>>) =>
             runs[r].began[1].status = "pending"

\* C25: an item removed from the queue while pending is never processed
\* afterwards: no run is inside processItem for an item that was no longer in
\* the queue when processItem started.
C25_RemovedNeverProcessed ==
    \A r \in 1..Len(runs) : InProcessItem(runs[r]) => runs[r].began # <<>>

\* C26: the language processItem works with is the language the queue held
\* for the item at the moment its processing started.
C26_LanguageAtStart ==
    \A r \in 1..Len(runs) :
       (InProcessItem(runs[r]) /\ runs[r].began # <<>>) =>
          Current(runs[r]).language = runs[r].began[1].language

\* C27: no document record of a file is in status pending while the queue
\* item of that file is completed or failed.
C27_NoPendingRecordOfTerminalItem ==
    \A k \in 1..Len(items) :
       items[k].status \in Terminal =>
          \A d \in 1..Len(documents) :
             documents[d].file = items[k].id => documents[d].status # "pending"

(***************************************************************************)
(* Properties of the text editor (SpecEditor)                              *)
(***************************************************************************)
\* C28: the undo history is bounded: past.length <= maxHistory.
C28_PastBounded == Len(history.past) <= MaxHistory

\* The history is full, its oldest entry is no longer the initial text and
\* a burst of edits is in progress.
C28_Witness ==
    /\ Len(history.past) = MaxHistory
    /\ history.past[1] # InitialText
    /\ debounceTimer

\* C29: a burst of setText calls starting from an idle editor adds exactly
\* one entry to past, the text shown before the burst, already at the first
\* call; the later calls of the burst and the firing of the debounce timer
\* add none, and an undo restores the last entry of past.
C29_BurstIsOneUndoStep ==
    /\ [][(SetText /\ ~debounceTimer) => history'.past = PushPast(history)]_vars
    /\ [][(SetText /\ debounceTimer) => history'.past = history.past]_vars
    /\ [][TimerFires => history'.past = history.past]_vars
    /\ [][(Undo /\ history.past # <<>>) =>
             history'.present = history.past[Len(history.past)]]_vars

\* C30: immediately after a setText call future is empty (canRedo is false).
C30_EditDiscardsRedo == [][SetText => history'.future = <<>>]_vars

====
